---- MODULE Spec2Model ----
(***************************************************************************)
(* Model of the rTFPG fault reasoner: the graph model (rTFPGModel), the    *)
(* sample buffer (SignalIngestor), and the Logic Engine's full-buffer      *)
(* replay (evaluateSignalTrace) and hypothesis tracking                    *)
(* (LogicEngine::findActiveHypotheses), driven by the online loop of main. *)
(*                                                                         *)
(* Numbers: the sources' doubles are modelled exactly.  Sample values,     *)
(* thresholds and range limits are integers; robustness and plausibility   *)
(* are rationals <<numerator, denominator>> in lowest terms with a         *)
(* positive denominator.  std::optional<T> is a sequence of length 0 or 1. *)
(***************************************************************************)
EXTENDS Integers, Sequences, FiniteSets, TLC

\* Longest sample buffer explored (number of ticks of the online loop).
MaxSamples == 2

\* Largest timestamp_ms of an ingested sample; timestamps are 0..MaxTime.
MaxTime == 1

\* m_model, m_samples, m_node_states: the rTFPGModel, the SignalIngestor's
\* buffer and the LogicEngine's node-state map; diagnoses, outcome: what the
\* last findActiveHypotheses returned and how it ended.  ranked_diagnoses: the
\* vector findActiveHypotheses hands to std::sort.  nodeStates,
\* criticalityThreshold, current_time: the arguments of
\* PrognosisManager::calculateTTC; prognosis: what it returned.
\* hypothesisId: the argument of PrognosisManager::calculatePlausibility, which
\* is handed nodeStates too; hypothesis_plausibility: what it returned.  p_id,
\* candidateSetH, dataset: the arguments of RefinementOptimizer::refine and
\* calculateDiagnosisError; diagnosisError: what calculateDiagnosisError
\* returned; refine_log: what the last refine did to the graph, step by
\* step.  m_parameter_to_internal_id, m_internal_id_to_parameter,
\* m_next_internal_id: the SignalIngestor's registry.  last_active_symptoms,
\* last_robustness_scores, last_ttc: what main keeps from tick to tick; report:
\* whether the last tick printed a report block.
VARIABLES m_model, m_samples, m_node_states, diagnoses, outcome,
          ranked_diagnoses,
          nodeStates, criticalityThreshold, current_time, prognosis,
          hypothesisId, hypothesis_plausibility,
          p_id, candidateSetH, dataset, diagnosisError, refine_log,
          m_parameter_to_internal_id, m_internal_id_to_parameter,
          m_next_internal_id,
          last_active_symptoms, last_robustness_scores, last_ttc, report

prognosis_vars == <<nodeStates, criticalityThreshold, current_time, prognosis,
                    hypothesisId, hypothesis_plausibility>>

refinement_vars == <<p_id, candidateSetH, dataset, diagnosisError, refine_log>>

ingestor_vars ==
    <<m_parameter_to_internal_id, m_internal_id_to_parameter, m_next_internal_id>>

driver_vars == <<last_active_symptoms, last_robustness_scores, last_ttc, report>>

vars == <<m_model, m_samples, m_node_states, diagnoses, outcome,
          ranked_diagnoses, prognosis_vars, refinement_vars, ingestor_vars,
          driver_vars>>

----------------------------------------------------------------------------
(* Exact arithmetic on rationals <<n, d>>, d > 0, lowest terms.            *)

Abs(x) == IF x < 0 THEN -x ELSE x

RECURSIVE Gcd(_, _)
Gcd(a, b) == IF b = 0 THEN a ELSE Gcd(b, a % b)

Rat(n, d) ==
    LET g == Gcd(Abs(n), d)
    IN  IF n = 0 THEN <<0, 1>> ELSE <<n \div g, d \div g>>

RatAdd(a, b) == Rat(a[1] * b[2] + b[1] * a[2], a[2] * b[2])

RatLess(a, b) == a[1] * b[2] < b[1] * a[2]

RatDivInt(a, k) == Rat(a[1], a[2] * k)

Zero == <<0, 1>>

----------------------------------------------------------------------------
(* Data model: rTFPGModel.h, SignalIngestor.h, LogicEngine.h               *)

\* struct NodeState's default member initialisers.
DefaultNodeState ==
    [is_active |-> FALSE, robustness |-> Zero,
     activation_time_ms |-> 0, trigger_value |-> 0]

Signal(id, source_name, range_min, range_max) ==
    [id |-> id, source_name |-> source_name,
     range_min |-> range_min, range_max |-> range_max]

Predicate(signal_ref, op, threshold) ==
    [signal_ref |-> signal_ref, op |-> op, threshold |-> threshold]

\* A failure mode carries neither gate_type nor predicate (empty optionals).
FailureMode(id, name, criticality_level) ==
    [id |-> id, name |-> name, type |-> "FailureMode",
     gate_type |-> <<>>, predicate |-> <<>>,
     criticality_level |-> criticality_level]

Discrepancy(id, name, gate_type, predicate, criticality_level) ==
    [id |-> id, name |-> name, type |-> "Discrepancy",
     gate_type |-> gate_type, predicate |-> predicate,
     criticality_level |-> criticality_level]

Edge(from, to, time_min_ms, time_max_ms) ==
    [from |-> from, to |-> to,
     time_min_ms |-> time_min_ms, time_max_ms |-> time_max_ms]

DataSample(timestamp_ms, parameterID, value, is_failure_mode) ==
    [timestamp_ms |-> timestamp_ms, parameterID |-> parameterID,
     value |-> value, is_failure_mode |-> is_failure_mode]

SeqRange(s) == {s[i] : i \in 1..Len(s)}

NodeIds(model) == {n.id : n \in SeqRange(model.nodes)}

\* LogicEngine's constructor: one default NodeState per node id.
InitNodeStates(model) == [id \in NodeIds(model) |-> DefaultNodeState]

----------------------------------------------------------------------------
(* Phase 1: predicate evaluation.  LogicEngine.cpp, evaluateSignalTrace.   *)

\* A robustness that also knows >=, as signal_value - threshold raised by
\* one quantum of the values used.
calculateRobustnessWithGe(predicate, signal_value, range_min, range_max) ==
    LET raw_val == IF predicate.op = ">" THEN signal_value - predicate.threshold
                   ELSE IF predicate.op = "<" THEN predicate.threshold - signal_value
                   ELSE IF predicate.op = ">="
                   THEN signal_value - predicate.threshold + 1
                   ELSE 0
        range == range_max - range_min
    IN  IF range <= 0 THEN Rat(raw_val, 1) ELSE Rat(raw_val, range)

calculateRobustness(predicate, signal_value, range_min, range_max) ==
    LET raw_val == IF predicate.op = ">" THEN signal_value - predicate.threshold
                   ELSE IF predicate.op = "<" THEN predicate.threshold - signal_value
                   ELSE 0
        range == range_max - range_min
    IN  \* range <= 1e-9 on integer limits is range <= 0
        IF range <= 0 THEN Rat(raw_val, 1) ELSE Rat(raw_val, range)

\* Lines 46-52: the sample is a sensor reading iff some signal has its name.
IsSensorReading(model, sample) ==
    \E i \in 1..Len(model.signals) :
        model.signals[i].source_name = sample.parameterID

\* Lines 58-68: the first signal whose id is the predicate's signal_ref, or
\* the defaults (empty source name, range [0, 1]) when none resolves.
ResolveSignal(model, signal_ref) ==
    LET hits == {i \in 1..Len(model.signals) : model.signals[i].id = signal_ref}
    IN  IF hits = {}
        THEN [source_name |-> "", range_min |-> 0, range_max |-> 1]
        ELSE LET sig == model.signals[CHOOSE i \in hits : \A j \in hits : i <= j]
             IN  [source_name |-> sig.source_name,
                  range_min |-> sig.range_min, range_max |-> sig.range_max]

\* std::unordered_map::operator[]: a missing key is inserted with a default
\* NodeState before it is read.
Touch(node_states, id) ==
    IF id \in DOMAIN node_states THEN node_states
    ELSE node_states @@ (id :> DefaultNodeState)

\* A parent loop that asks each parent to be active and does not compare its
\* activation time with the sample's timestamp.
RECURSIVE ParentsMetActiveOnly(_, _, _, _, _)
ParentsMetActiveOnly(model, node_states, node, timestamp_ms, i) ==
    IF i > Len(model.edges)
    THEN [states |-> node_states, condition_met |-> TRUE]
    ELSE LET edge == model.edges[i]
         IN  IF edge.to # node.id
             THEN ParentsMetActiveOnly(model, node_states, node, timestamp_ms, i + 1)
             ELSE LET st == Touch(node_states, edge.from)
                  IN  IF ~st[edge.from].is_active
                      THEN [states |-> st, condition_met |-> FALSE]
                      ELSE ParentsMetActiveOnly(model, st, node, timestamp_ms, i + 1)

\* Lines 80-89: the AND-gate parent loop over the edge list from index i, with
\* its break at the first parent that is inactive or activated later than the
\* sample.  Returns the map (operator[] may have inserted edge.from) and
\* condition_met.
RECURSIVE ParentsMet(_, _, _, _, _)
ParentsMet(model, node_states, node, timestamp_ms, i) ==
    IF i > Len(model.edges)
    THEN [states |-> node_states, condition_met |-> TRUE]
    ELSE LET edge == model.edges[i]
         IN  IF edge.to # node.id
             THEN ParentsMet(model, node_states, node, timestamp_ms, i + 1)
             ELSE LET st == Touch(node_states, edge.from)
                  IN  IF ~st[edge.from].is_active
                         \/ st[edge.from].activation_time_ms > timestamp_ms
                      THEN [states |-> st, condition_met |-> FALSE]
                      ELSE ParentsMet(model, st, node, timestamp_ms, i + 1)

\* Lines 78-99: the activation attempt of an inactive node with robustness > 0.
TryActivate(model, node_states, node, sample, robustness) ==
    LET chk == IF node.gate_type = <<"AND">>
               THEN ParentsMet(model, node_states, node, sample.timestamp_ms, 1)
               ELSE [states |-> node_states, condition_met |-> TRUE]
    IN  IF chk.condition_met
        THEN [chk.states EXCEPT ![node.id] =
                 [is_active |-> TRUE, robustness |-> robustness,
                  activation_time_ms |-> sample.timestamp_ms,
                  trigger_value |-> sample.value]]
        ELSE chk.states

\* A sensor branch that records the robustness of every reading, also on a
\* node that is already active.
EvalNodeRecordsActive(model, node_states, node, sample) ==
    IF ~(node.type = "Discrepancy" /\ node.predicate # <<>>)
    THEN node_states
    ELSE LET pred == node.predicate[1]
             sig == ResolveSignal(model, pred.signal_ref)
         IN  IF sig.source_name # sample.parameterID
             THEN node_states
             ELSE LET robustness == calculateRobustness(pred, sample.value,
                                        sig.range_min, sig.range_max)
                      st == [node_states EXCEPT ![node.id].robustness = robustness]
                  IN  IF RatLess(Zero, robustness) /\ ~st[node.id].is_active
                      THEN TryActivate(model, st, node, sample, robustness)
                      ELSE st

\* Lines 56-101: one node of the sensor-reading branch.
EvalNode(model, node_states, node, sample) ==
    IF ~(node.type = "Discrepancy" /\ node.predicate # <<>>)
    THEN node_states
    ELSE LET pred == node.predicate[1]
             sig == ResolveSignal(model, pred.signal_ref)
         IN  IF sig.source_name # sample.parameterID
             THEN node_states
             ELSE LET robustness == calculateRobustness(pred, sample.value,
                                        sig.range_min, sig.range_max)
                      st == IF ~node_states[node.id].is_active
                            THEN [node_states EXCEPT ![node.id].robustness = robustness]
                            ELSE node_states
                  IN  IF RatLess(Zero, robustness) /\ ~st[node.id].is_active
                      THEN TryActivate(model, st, node, sample, robustness)
                      ELSE st

\* Lines 55-102: the sensor-reading branch visits the nodes in list order.
RECURSIVE SensorBranch(_, _, _, _)
SensorBranch(model, node_states, sample, i) ==
    IF i > Len(model.nodes) THEN node_states
    ELSE SensorBranch(model,
             EvalNode(model, node_states, model.nodes[i], sample), sample, i + 1)

\* A resolution that falls back to the first node of the model when neither
\* the id nor the name matches.
ResolveTargetFirstNode(model, node_states, parameterID) ==
    IF parameterID \in DOMAIN node_states THEN <<parameterID>>
    ELSE LET hits == {i \in 1..Len(model.nodes) : model.nodes[i].name = parameterID}
         IN  IF hits = {}
             THEN IF Len(model.nodes) = 0 THEN <<>> ELSE <<model.nodes[1].id>>
             ELSE <<model.nodes[CHOOSE i \in hits : \A j \in hits : i <= j].id>>

\* A resolution that looks for a node of that name first and takes the
\* parameterID as an id only when no node has the name.
ResolveTargetNameFirst(model, node_states, parameterID) ==
    LET hits == {i \in 1..Len(model.nodes) : model.nodes[i].name = parameterID}
    IN  IF hits # {}
        THEN <<model.nodes[CHOOSE i \in hits : \A j \in hits : i <= j].id>>
        ELSE IF parameterID \in DOMAIN node_states THEN <<parameterID>>
        ELSE <<>>

\* Lines 105-118: the fault-injection target: the parameterID when the state
\* map has that key, else the id of the first node with that name; <<>> when
\* neither resolves.
ResolveTarget(model, node_states, parameterID) ==
    IF parameterID \in DOMAIN node_states THEN <<parameterID>>
    ELSE LET hits == {i \in 1..Len(model.nodes) : model.nodes[i].name = parameterID}
         IN  IF hits = {} THEN <<>>
             ELSE <<model.nodes[CHOOSE i \in hits : \A j \in hits : i <= j].id>>

\* An injection that writes the level of the sample, so that a value <= 0
\* clears an active target.
FaultInjectionLevel(node_states, target, sample) ==
    LET st == Touch(node_states, target)
    IN  IF sample.value > 0
        THEN IF st[target].is_active THEN st
             ELSE [st EXCEPT ![target].is_active = TRUE,
                             ![target].activation_time_ms = sample.timestamp_ms,
                             ![target].trigger_value = sample.value]
        ELSE [st EXCEPT ![target].is_active = FALSE]

\* An injection that does not look at the sample's value.
FaultInjectionAnyValue(node_states, target, sample) ==
    LET st == Touch(node_states, target)
    IN  IF ~st[target].is_active
        THEN [st EXCEPT ![target].is_active = TRUE,
                        ![target].activation_time_ms = sample.timestamp_ms,
                        ![target].trigger_value = sample.value]
        ELSE st

\* Lines 120-129: activation of the resolved target.
FaultInjection(node_states, target, sample) ==
    LET st == Touch(node_states, target)
    IN  IF ~st[target].is_active /\ sample.value > 0
        THEN [st EXCEPT ![target].is_active = TRUE,
                        ![target].activation_time_ms = sample.timestamp_ms,
                        ![target].trigger_value = sample.value]
        ELSE st

\* Lines 103-130: the fault-injection branch.
FaultBranch(model, node_states, sample) ==
    LET target == ResolveTarget(model, node_states, sample.parameterID)
    IN  IF target = <<>> THEN node_states
        ELSE FaultInjection(node_states, target[1], sample)

\* A loop body that takes the fault-injection branch for every sample flagged
\* is_failure_mode and looks at the signal names only for the others.
EvalSampleByFlag(model, node_states, sample) ==
    IF sample.is_failure_mode THEN FaultBranch(model, node_states, sample)
    ELSE IF IsSensorReading(model, sample)
    THEN SensorBranch(model, node_states, sample, 1)
    ELSE FaultBranch(model, node_states, sample)

\* Lines 44-131: the body of the loop over the buffered samples.
EvalSample(model, node_states, sample) ==
    IF IsSensorReading(model, sample)
    THEN SensorBranch(model, node_states, sample, 1)
    ELSE FaultBranch(model, node_states, sample)

\* The node-state map after the first k samples of the buffer were replayed on
\* node_states.
RECURSIVE EvalPrefix(_, _, _, _)
EvalPrefix(model, samples, node_states, k) ==
    IF k = 0 THEN node_states
    ELSE EvalSample(model, EvalPrefix(model, samples, node_states, k - 1),
                    samples[k])

evaluateSignalTrace(model, samples, node_states) ==
    EvalPrefix(model, samples, node_states, Len(samples))

----------------------------------------------------------------------------
(* Phase 2: hypothesis tracking.  LogicEngine::findActiveHypotheses.       *)

\* std::set<std::string> and std::map<std::string, ...> iterate in
\* lexicographic key order; IdOrder lists the identifiers used in that order.
IdOrder ==
    <<"", "A", "B", "C", "D", "D01", "D02", "D1", "D2", "F1", "F2", "H1", "X9",
      "temp", "zz">>

IdRank(id) == CHOOSE i \in 1..Len(IdOrder) : IdOrder[i] = id

RECURSIVE SortedIds(_)
SortedIds(ids) ==
    IF ids = {} THEN <<>>
    ELSE LET first == CHOOSE x \in ids : \A y \in ids : IdRank(x) <= IdRank(y)
         IN  <<first>> \o SortedIds(ids \ {first})

\* Lines 142-145: node_map[node.id] = node, a later node of the same id
\* replacing an earlier one.
NodeMapAt(model, id) ==
    LET hits == {i \in 1..Len(model.nodes) : model.nodes[i].id = id}
    IN  model.nodes[CHOOSE i \in hits : \A j \in hits : j <= i]

\* Lines 148-153: the active discrepancies.
ActiveSymptoms(model, node_states) ==
    {id \in DOMAIN node_states :
        /\ node_states[id].is_active
        /\ id \in NodeIds(model)
        /\ NodeMapAt(model, id).type = "Discrepancy"}

\* A hop test that compares the magnitude of the time delta with the window,
\* so that a parent activated after its child passes.
HopConsistentAbsDelta(node_states, edge, current_id, parent_id) ==
    /\ parent_id \in DOMAIN node_states
    /\ node_states[parent_id].is_active
    /\ LET delta == Abs(node_states[current_id].activation_time_ms
                        - node_states[parent_id].activation_time_ms)
       IN  delta >= edge.time_min_ms /\ delta <= edge.time_max_ms

\* Lines 166-172: the parent is active and the children's time delta lies in
\* the edge's window (the subtraction is done on doubles, so it may be
\* negative).
HopConsistent(node_states, edge, current_id, parent_id) ==
    /\ parent_id \in DOMAIN node_states
    /\ node_states[parent_id].is_active
    /\ LET delta == node_states[current_id].activation_time_ms
                    - node_states[parent_id].activation_time_ms
       IN  delta >= edge.time_min_ms /\ delta <= edge.time_max_ms

\* A backward search that asks of a failure-mode parent what it asks of a
\* discrepancy parent: to be active and within the edge's window.
RECURSIVE BackwardEdgesTimedFailureModes(_, _, _, _, _, _)
BackwardEdgesTimedFailureModes(model, node_states, current_id, stack, i, acc) ==
    IF acc.ev # "ok" \/ i > Len(model.edges) THEN acc
    ELSE LET edge == model.edges[i]
             parent_id == edge.from
         IN  IF edge.to # current_id
             THEN BackwardEdgesTimedFailureModes(model, node_states, current_id,
                                                 stack, i + 1, acc)
             ELSE IF parent_id \notin NodeIds(model)
             THEN [acc EXCEPT !.ev = "out_of_range"]
             ELSE IF ~HopConsistent(node_states, edge, current_id, parent_id)
             THEN BackwardEdgesTimedFailureModes(model, node_states, current_id,
                                                 stack, i + 1, acc)
             ELSE IF NodeMapAt(model, parent_id).type = "FailureMode"
             THEN BackwardEdgesTimedFailureModes(model, node_states, current_id,
                      stack, i + 1, [acc EXCEPT !.cands = @ \cup {parent_id}])
             ELSE LET hop == [child |-> current_id, parent |-> parent_id, edge |-> i]
                      called == [acc EXCEPT !.hops = @ \cup {hop}]
                  IN  IF parent_id \in stack
                      THEN [called EXCEPT !.ev = "stack_overflow"]
                      ELSE BackwardEdgesTimedFailureModes(model, node_states,
                               current_id, stack, i + 1,
                               BackwardEdgesTimedFailureModes(model, node_states,
                                   parent_id, stack \cup {parent_id}, 1, called))

\* Lines 158-179: backwardPropagate(current_id), from edge index i on.  acc
\* holds candidate_failures and how the traversal ended: "ok", "out_of_range"
\* (node_map.at of an id that is no node throws), or "stack_overflow" (the
\* recursion re-enters a node that is on its own call stack; nothing the
\* traversal reads changes, so it never returns).  stack is the set of ids on
\* the call stack.  acc.hops records every recursive call of line 171 as
\* [child, parent, edge]: the node it was made from, the node it was made on
\* and the index of the edge followed.
RECURSIVE BackwardEdges(_, _, _, _, _, _)
BackwardEdges(model, node_states, current_id, stack, i, acc) ==
    IF acc.ev # "ok" \/ i > Len(model.edges) THEN acc
    ELSE LET edge == model.edges[i]
             parent_id == edge.from
         IN  IF edge.to # current_id
             THEN BackwardEdges(model, node_states, current_id, stack, i + 1, acc)
             ELSE IF parent_id \notin NodeIds(model)
             THEN [acc EXCEPT !.ev = "out_of_range"]
             ELSE IF NodeMapAt(model, parent_id).type = "FailureMode"
             THEN BackwardEdges(model, node_states, current_id, stack, i + 1,
                      [acc EXCEPT !.cands = @ \cup {parent_id}])
             ELSE IF ~HopConsistent(node_states, edge, current_id, parent_id)
             THEN BackwardEdges(model, node_states, current_id, stack, i + 1, acc)
             ELSE LET hop == [child |-> current_id, parent |-> parent_id, edge |-> i]
                      called == [acc EXCEPT !.hops = @ \cup {hop}]
                  IN  IF parent_id \in stack
                      THEN [called EXCEPT !.ev = "stack_overflow"]
                      ELSE BackwardEdges(model, node_states, current_id, stack, i + 1,
                               BackwardEdges(model, node_states, parent_id,
                                             stack \cup {parent_id}, 1, called))

backwardPropagate(model, node_states, symptom) ==
    BackwardEdges(model, node_states, symptom, {symptom}, 1,
                  [cands |-> {}, ev |-> "ok", hops |-> {}])

\* Lines 191-206: the ids the forward BFS from fm_id visits.
RECURSIVE ForwardVisited(_, _)
ForwardVisited(model, visited) ==
    LET next == visited \cup
                {e.to : e \in {x \in SeqRange(model.edges) : x.from \in visited}}
    IN  IF next = visited THEN visited ELSE ForwardVisited(model, next)

\* Line 201: node_map.at(edge.to) throws when a visited edge ends in no node.
ForwardThrows(model, fm_id) ==
    \E id \in ForwardVisited(model, {fm_id}) : id \notin NodeIds(model)

\* An expectation of the direct children only.
ExpectedSymptomsChildren(model, fm_id) ==
    {e.to : e \in {x \in SeqRange(model.edges) :
                      /\ x.from = fm_id
                      /\ x.to # fm_id
                      /\ NodeMapAt(model, x.to).type = "Discrepancy"}}

\* Lines 191-206: expected_symptoms, the discrepancies among the ids visited
\* after fm_id.
ExpectedSymptoms(model, fm_id) ==
    {id \in ForwardVisited(model, {fm_id}) \ {fm_id} :
        NodeMapAt(model, id).type = "Discrepancy"}

RECURSIVE SumRobustness(_, _)
SumRobustness(node_states, ids) ==
    IF ids = {} THEN Zero
    ELSE LET x == CHOOSE y \in ids : TRUE
         IN  RatAdd(node_states[x].robustness,
                    SumRobustness(node_states, ids \ {x}))

\* A clamp from above only.
ClampAbove(r) ==
    IF RatLess(<<1, 1>>, r) THEN <<1, 1>> ELSE r

\* Line 230: clamp to [-1, 1].
Clamp(r) ==
    IF RatLess(<<1, 1>>, r) THEN <<1, 1>>
    ELSE IF RatLess(r, <<-1, 1>>) THEN <<-1, 1>>
    ELSE r

\* Lines 208-235: the DiagnosisResult of one candidate failure mode.
Diagnose(model, node_states, fm_id) ==
    LET expected == ExpectedSymptoms(model, fm_id)
        known == {s \in expected : s \in DOMAIN node_states}
        consistent == {s \in known : node_states[s].is_active}
        n == Cardinality(expected)
    IN  [node |-> fm_id,
         plausibility |-> IF n = 0 THEN Zero ELSE Rat(Cardinality(consistent), n),
         robustness |-> IF n = 0 THEN Zero
                        ELSE Clamp(RatDivInt(SumRobustness(node_states, known), n)),
         expected_symptoms |-> expected,
         consistent_symptoms |-> SortedIds(consistent),
         symptom_values |-> [s \in consistent |-> node_states[s].trigger_value]]

\* Results that keep a candidate only when more than half of its expected
\* symptoms are active.
RECURSIVE ResultsAboveHalf(_, _, _)
ResultsAboveHalf(model, node_states, fms) ==
    IF fms = <<>> THEN <<>>
    ELSE LET d == Diagnose(model, node_states, Head(fms))
             rest == ResultsAboveHalf(model, node_states, Tail(fms))
         IN  IF RatLess(<<1, 2>>, d.plausibility) THEN <<d>> \o rest ELSE rest

\* Lines 188-236: the unsorted results, one per candidate in set order, kept
\* when plausibility > 0.
RECURSIVE Results(_, _, _)
Results(model, node_states, fms) ==
    IF fms = <<>> THEN <<>>
    ELSE LET d == Diagnose(model, node_states, Head(fms))
             rest == Results(model, node_states, Tail(fms))
         IN  IF RatLess(Zero, d.plausibility) THEN <<d>> \o rest ELSE rest

\* Line 240: the tie threshold 1e-6 is 1 / TieDenominator.
TieDenominator == 1000000

\* Lines 239-244: the comparator handed to std::sort.
RankedBefore(a, b) ==
    LET diff == RatAdd(a.plausibility, <<-b.plausibility[1], b.plausibility[2]>>)
        absdiff == <<Abs(diff[1]), diff[2]>>
    IN  IF RatLess(<<1, TieDenominator>>, absdiff)
        THEN RatLess(b.plausibility, a.plausibility)
        ELSE RatLess(b.robustness, a.robustness)

\* std::sort as an insertion sort: results the comparator does not order keep
\* their candidate order (std::sort leaves their order unspecified).
RECURSIVE InsertRanked(_, _)
InsertRanked(sorted, d) ==
    IF sorted = <<>> THEN <<d>>
    ELSE IF RankedBefore(d, Head(sorted)) THEN <<d>> \o sorted
    ELSE <<Head(sorted)>> \o InsertRanked(Tail(sorted), d)

RECURSIVE SortRanked(_)
SortRanked(ds) ==
    IF ds = <<>> THEN <<>>
    ELSE InsertRanked(SortRanked(SubSeq(ds, 1, Len(ds) - 1)), ds[Len(ds)])

\* Lines 141-247: the ways phase 2 can end on node_states: [ev, diags].  The
\* symptoms are visited in std::unordered_map order, which is unspecified, so
\* when several symptoms' traversals end abnormally each may be the first.
HypothesisTracking(model, node_states) ==
    LET symptoms == ActiveSymptoms(model, node_states)
        bad == {s \in symptoms : backwardPropagate(model, node_states, s).ev # "ok"}
        candidate_failures ==
            UNION {backwardPropagate(model, node_states, s).cands : s \in symptoms}
    IN  IF bad # {}
        THEN {[ev |-> backwardPropagate(model, node_states, s).ev, diags |-> <<>>] :
                  s \in bad}
        ELSE IF \E fm \in candidate_failures : ForwardThrows(model, fm)
        THEN {[ev |-> "out_of_range", diags |-> <<>>]}
        ELSE {[ev |-> "ok",
               diags |-> SortRanked(Results(model, node_states,
                                            SortedIds(candidate_failures)))]}

----------------------------------------------------------------------------
(* Graph mutation.  rTFPGModel::addNode, removeNode, addEdge, removeEdge.  *)

\* An addNode without the test for an existing id.
addNodeAlways(model, node) ==
    [model EXCEPT !.nodes = Append(@, node)]

\* rTFPGModel.cpp lines 83-89.
addNode(model, node) ==
    IF \E i \in 1..Len(model.nodes) : model.nodes[i].id = node.id
    THEN model
    ELSE [model EXCEPT !.nodes = Append(@, node)]

\* A removeNode that erases the node and the edges leaving it, and keeps the
\* edges that end in it.
removeNodeOutgoingOnly(model, id) ==
    LET KeepNode(n) == n.id # id
        KeepEdge(e) == e.from # id
    IN  [model EXCEPT !.nodes = SelectSeq(@, KeepNode),
                      !.edges = SelectSeq(@, KeepEdge)]

\* rTFPGModel.cpp lines 91-99: the nodes of that id and the edges from or to
\* it are erased.
removeNode(model, id) ==
    LET KeepNode(n) == n.id # id
        KeepEdge(e) == ~(e.from = id \/ e.to = id)
    IN  [model EXCEPT !.nodes = SelectSeq(@, KeepNode),
                      !.edges = SelectSeq(@, KeepEdge)]

\* rTFPGModel.cpp lines 101-103.
addEdge(model, edge) ==
    [model EXCEPT !.edges = Append(@, edge)]

\* rTFPGModel.cpp lines 105-111: every edge from -> to is erased.
removeEdge(model, from, to) ==
    LET KeepEdge(e) == ~(e.from = from /\ e.to = to)
    IN  [model EXCEPT !.edges = SelectSeq(@, KeepEdge)]

----------------------------------------------------------------------------
(* Prognosis.  PrognosisManager::calculateTTC.                             *)

\* nodeStates.count(id) && nodeStates.at(id).is_active (lines 129, 146).
IsActiveIn(node_states, id) ==
    id \in DOMAIN node_states /\ node_states[id].is_active

\* A criticality front that also holds the nodes that are already active.
OnCriticalityFrontActiveToo(model, node_states, threshold, u) ==
    /\ u \in NodeIds(model)
    /\ NodeMapAt(model, u).criticality_level >= threshold

\* Lines 126-129: u is a node of m_node_map with criticality_level >= the
\* threshold that is not already active.
OnCriticalityFront(model, node_states, threshold, u) ==
    /\ u \in NodeIds(model)
    /\ NodeMapAt(model, u).criticality_level >= threshold
    /\ ~IsActiveIn(node_states, u)

\* An edge weighted by the end of its window.
EdgeWeightMax(edge) == edge.time_max_ms

\* Lines 25 and 151: the weight of an edge of m_adj is its time_min_ms.
EdgeWeight(edge) == edge.time_min_ms

\* A filter that lets every prediction pass.
PredictsPastNever(arrival_time, now) == FALSE

\* Line 156: the prediction lies in the past.
PredictsPast(arrival_time, now) == arrival_time < now

\* Lines 111-117: the state front, one queue entry <<start_time, id>> per
\* active entry of nodeStates.
StateFront(node_states) ==
    {<<node_states[id].activation_time_ms, id>> :
        id \in {x \in DOMAIN node_states : node_states[x].is_active}}

\* std::priority_queue with std::greater on pair<double, string>: the least
\* time first, the lexicographically least id among equal times.
PqTop(pq) ==
    CHOOSE x \in pq :
        \A y \in pq : x[1] < y[1] \/ (x[1] = y[1] /\ IdRank(x[2]) <= IdRank(y[2]))

\* Lines 141-165: the loop over m_adj[u] from edge index i on, u popped with
\* time d.  st = [pq, min_dist, pushed]; pushed collects every predicted
\* entry pushed at line 163.
RECURSIVE Relax(_, _, _, _, _, _, _)
Relax(model, node_states, now, u, d, i, st) ==
    IF i > Len(model.edges) THEN st
    ELSE LET edge == model.edges[i]
             v == edge.to
             arrival_time == d + EdgeWeight(edge)
         IN  IF edge.from # u \/ IsActiveIn(node_states, v)
                \/ PredictsPast(arrival_time, now)
             THEN Relax(model, node_states, now, u, d, i + 1, st)
             ELSE IF v \notin DOMAIN st.min_dist \/ st.min_dist[v] > arrival_time
             THEN Relax(model, node_states, now, u, d, i + 1,
                      [pq |-> st.pq \cup {<<arrival_time, v>>},
                       min_dist |-> [x \in DOMAIN st.min_dist \cup {v} |->
                                        IF x = v THEN arrival_time ELSE st.min_dist[x]],
                       pushed |-> st.pushed \cup {<<arrival_time, v>>}])
             ELSE Relax(model, node_states, now, u, d, i + 1, st)

\* Lines 120-170: the loop over the queue.  The result is a PrognosisResult
\* with ttc = <<>> for +infinity and <<t>> for the finite value t, together
\* with the predicted entries pushed on the way.
RECURSIVE Dijkstra(_, _, _, _, _)
Dijkstra(model, node_states, threshold, now, st) ==
    IF st.pq = {}
    THEN [ttc |-> <<>>, critical_node_id |-> "", pushed |-> st.pushed]
    ELSE LET top == PqTop(st.pq)
             d == top[1]
             u == top[2]
             popped == [st EXCEPT !.pq = @ \ {top}]
         IN  IF OnCriticalityFront(model, node_states, threshold, u)
             THEN [ttc |-> <<d - now>>, critical_node_id |-> u, pushed |-> st.pushed]
             ELSE IF u \in DOMAIN st.min_dist /\ d > st.min_dist[u]
             THEN Dijkstra(model, node_states, threshold, now, popped)
             ELSE Dijkstra(model, node_states, threshold, now,
                           Relax(model, node_states, now, u, d, 1, popped))

\* Lines 101-171.
calculateTTC(model, node_states, threshold, now) ==
    LET front == StateFront(node_states)
    IN  Dijkstra(model, node_states, threshold, now,
                 [pq |-> front,
                  min_dist |-> [id \in {x[2] : x \in front} |->
                                   node_states[id].activation_time_ms],
                  pushed |-> {}])

----------------------------------------------------------------------------
(* Prognosis.  PrognosisManager::calculatePlausibility.                    *)

\* Lines 82-89: the children of currId in the order of m_adj, which is the
\* order of the edges (lines 24-26), from edge i on; a child not yet visited
\* is marked and queued with the chain flag of currId.
RECURSIVE QueueChildren(_, _, _, _, _)
QueueChildren(model, currId, nextChainValid, i, st) ==
    IF i > Len(model.edges) THEN st
    ELSE IF model.edges[i].from = currId /\ model.edges[i].to \notin st.visited
    THEN QueueChildren(model, currId, nextChainValid, i + 1,
                       [st EXCEPT !.q = Append(@, <<model.edges[i].to,
                                                    nextChainValid>>),
                                  !.visited = @ \cup {model.edges[i].to}])
    ELSE QueueChildren(model, currId, nextChainValid, i + 1, st)

\* Lines 46-91: the loop over the queue of {node id, chain_is_valid}.  An
\* active node counts as expected and consistent; an inactive node behind a
\* valid chain is pending and not counted; an inactive node behind a broken
\* chain counts as expected only.  Only discrepancies of m_node_map count.
RECURSIVE PlausibilityLoop(_, _, _, _)
PlausibilityLoop(model, hypothesis, node_states, st) ==
    IF st.q = <<>> THEN st
    ELSE LET currId == Head(st.q)[1]
             chainValid == Head(st.q)[2]
             isActive == currId = hypothesis \/ IsActiveIn(node_states, currId)
             isDiscrepancy == /\ currId \in NodeIds(model)
                              /\ NodeMapAt(model, currId).type = "Discrepancy"
             nextChainValid == isActive \/ chainValid
             counted ==
                 [st EXCEPT !.q = Tail(@),
                            !.totalExpected =
                                IF isDiscrepancy /\ (isActive \/ ~chainValid)
                                THEN @ + 1 ELSE @,
                            !.consistent =
                                IF isDiscrepancy /\ isActive THEN @ + 1 ELSE @]
         IN  PlausibilityLoop(model, hypothesis, node_states,
                              QueueChildren(model, currId, nextChainValid, 1,
                                            counted))

\* Lines 32-95: consistent / totalExpected, 0 when nothing is expected.
calculatePlausibility(model, hypothesis, node_states) ==
    LET st == PlausibilityLoop(model, hypothesis, node_states,
                               [q |-> <<<<hypothesis, TRUE>>>>,
                                visited |-> {hypothesis},
                                totalExpected |-> 0, consistent |-> 0])
    IN  IF st.totalExpected = 0 THEN Zero
        ELSE Rat(st.consistent, st.totalExpected)

----------------------------------------------------------------------------
(* The graphs and samples explored.                                        *)

\* F1 -> D1, D1 AND-gated on its single parent (spec scenario 1 with an AND
\* gate): the parent can only be activated by a fault injection.
GChain ==
    [signals |-> <<Signal("s1", "temp", 0, 2)>>,
     nodes   |-> <<FailureMode("F1", "F1", 0),
                   Discrepancy("D1", "D1", <<"AND">>, <<Predicate("s1", ">", 1)>>, 5)>>,
     edges   |-> <<Edge("F1", "D1", 0, 1)>>]

\* F1 -> D1 -> D2 with the AND-gated child D2 listed before its parent D1, both
\* reading the same signal.
GOrder ==
    [signals |-> <<Signal("s1", "temp", 0, 2)>>,
     nodes   |-> <<Discrepancy("D2", "D2", <<"AND">>, <<Predicate("s1", ">", 1)>>, 9),
                   FailureMode("F1", "F1", 0),
                   Discrepancy("D1", "D1", <<"OR">>, <<Predicate("s1", ">", 1)>>, 1)>>,
     edges   |-> <<Edge("F1", "D1", 0, 1), Edge("D1", "D2", 1, 1)>>]

\* Names that differ from ids; D1's name is the id of F1.
GName ==
    [signals |-> <<Signal("s1", "temp", 0, 2)>>,
     nodes   |-> <<FailureMode("F1", "pump", 0),
                   Discrepancy("D1", "F1", <<"OR">>, <<Predicate("s1", "<", 1)>>, 5)>>,
     edges   |-> <<Edge("F1", "D1", 0, 0)>>]

\* Model inconsistencies: a signal with an empty source_name, a predicate whose
\* signal_ref resolves to no signal, and an edge from an id that is no node.
GDangling ==
    [signals |-> <<Signal("s1", "", 0, 2)>>,
     nodes   |-> <<FailureMode("F1", "F1", 0),
                   Discrepancy("D1", "D1", <<"AND">>, <<Predicate("s9", ">", 1)>>, 5)>>,
     edges   |-> <<Edge("F1", "D1", 0, 1), Edge("X9", "D1", 0, 1)>>]

\* An edge to an id that is no node, a degenerate signal range, and a
\* discrepancy without gate_type (the parser always sets one; rTFPGModel::addNode
\* accepts a node without).
GDanglingTo ==
    [signals |-> <<Signal("s1", "temp", 1, 1)>>,
     nodes   |-> <<FailureMode("F1", "F1", 0),
                   Discrepancy("D1", "D1", <<>>, <<Predicate("s1", ">", 1)>>, 5)>>,
     edges   |-> <<Edge("F1", "D1", 0, 1), Edge("D1", "X9", 0, 1)>>]

\* A cycle D1 -> D2 -> D1 among discrepancies.
GCycle ==
    [signals |-> <<Signal("s1", "temp", 0, 2)>>,
     nodes   |-> <<FailureMode("F1", "F1", 0),
                   Discrepancy("D1", "D1", <<"OR">>, <<Predicate("s1", ">", 1)>>, 5),
                   Discrepancy("D2", "D2", <<"OR">>, <<Predicate("s1", "<", 1)>>, 5)>>,
     edges   |-> <<Edge("F1", "D1", 0, 1), Edge("D2", "D1", 0, 1),
                   Edge("D1", "D2", 0, 0)>>]

Graphs == {GChain, GOrder, GName, GDangling, GDanglingTo, GCycle}

\* Two failure modes sharing a symptom, F1 -> D1, F1 -> D2, F2 -> D2, over a
\* signal whose range is a single point, so that calculateRobustness returns
\* the raw margin: 4 - value for D1, value - 3 for D2.
GRobust ==
    [signals |-> <<Signal("s1", "temp", 1, 1)>>,
     nodes   |-> <<FailureMode("F1", "F1", 0),
                   FailureMode("F2", "F2", 0),
                   Discrepancy("D1", "D1", <<"OR">>, <<Predicate("s1", "<", 4)>>, 5),
                   Discrepancy("D2", "D2", <<"OR">>, <<Predicate("s1", ">", 3)>>, 5)>>,
     edges   |-> <<Edge("F1", "D1", 0, 1), Edge("F1", "D2", 0, 1),
                   Edge("F2", "D2", 0, 1)>>]

\* The parameter ids a stream can usefully carry for a graph: every source
\* name, node id, node name and edge endpoint, and one id that is none of them.
ParameterIds(model) ==
    {sig.source_name : sig \in SeqRange(model.signals)}
    \cup NodeIds(model)
    \cup {n.name : n \in SeqRange(model.nodes)}
    \cup {e.from : e \in SeqRange(model.edges)}
    \cup {e.to : e \in SeqRange(model.edges)}
    \cup {"zz"}

\* Sample values: below, at and above the thresholds (all 1); 0 is also the
\* value of a fault injection that does nothing.
Values == {0, 1, 2}

Samples(model) ==
    {DataSample(t, p, v, FALSE) :
        t \in 0..MaxTime, p \in ParameterIds(model), v \in Values}

----------------------------------------------------------------------------
(* SignalIngestor, and what main compares from tick to tick.               *)

\* SignalIngestor.cpp lines 9-17: the loop of the constructor over the signals
\* from index k; a source name gets the next id once.
RECURSIVE RegisterSignals(_, _, _)
RegisterSignals(signals, k, registry) ==
    IF k > Len(signals) THEN registry
    ELSE LET source_name == signals[k].source_name
         IN  IF source_name \in DOMAIN registry.ids
             THEN RegisterSignals(signals, k + 1, registry)
             ELSE RegisterSignals(signals, k + 1,
                      [ids   |-> registry.ids @@ (source_name :> registry.next),
                       names |-> Append(registry.names, source_name),
                       next  |-> registry.next + 1])

\* SignalIngestor.cpp lines 5-19: the registry of a new ingestor.
SignalIngestorConstructed(signals) ==
    LET registry == RegisterSignals(signals, 1,
                        [ids |-> <<>>, names |-> <<>>, next |-> 0])
    IN  /\ m_parameter_to_internal_id = registry.ids
        /\ m_internal_id_to_parameter = registry.names
        /\ m_next_internal_id = registry.next

\* SignalIngestor.cpp lines 22-28: -1 for a parameter the map does not hold.
getInternalId(ids, parameterID) ==
    IF parameterID \in DOMAIN ids THEN ids[parameterID] ELSE -1

\* SignalIngestor.cpp lines 31-36: the name at index internalId of the vector,
\* <<>> where the code throws std::out_of_range.
getParameterId(names, internalId) ==
    IF internalId < 0 \/ internalId >= Len(names) THEN <<>>
    ELSE <<names[internalId + 1]>>

\* An ingest that puts the sample in front of the buffer.
ingestFront(samples, sample) == <<sample>> \o samples

\* SignalIngestor.cpp lines 39-43: push_back on the buffer, nothing else.
ingest(samples, sample) == Append(samples, sample)

\* main.cpp line 31.
DefaultCriticalityThreshold == 5

\* |a - b| for rationals.
RatDistance(a, b) ==
    LET d == RatAdd(a, <<-b[1], b[2]>>)
    IN  <<Abs(d[1]), d[2]>>

\* main.cpp lines 194-195, 206: the robustness of each diagnosis by
\* failure-mode id.
RobustnessScores(diags) ==
    [id \in {diags[i].node : i \in 1..Len(diags)} |->
        diags[CHOOSE i \in 1..Len(diags) :
                  /\ diags[i].node = id
                  /\ \A j \in 1..Len(diags) : diags[j].node = id => j <= i].robustness]

\* main.cpp lines 192-203: a diagnosis is new or its robustness moved by more
\* than 1e-6, or the number of diagnoses differs.
RobustnessChanged(last_scores, diags) ==
    \/ \E i \in 1..Len(diags) :
          \/ diags[i].node \notin DOMAIN last_scores
          \/ RatLess(<<1, 1000000>>,
                     RatDistance(last_scores[diags[i].node], diags[i].robustness))
    \/ Cardinality(DOMAIN last_scores)
           # Cardinality(DOMAIN RobustnessScores(diags))

\* main.cpp line 218: ttc <= 0 && last_ttc > 0, +infinity being <<>>.
TtcExpired(ttc, last) ==
    /\ ttc # <<>>
    /\ ttc[1] <= 0
    /\ (last = <<>> \/ last[1] > 0)

\* main.cpp line 226: the condition of the report block.
ReportPrinted(diags, symptoms_changed, robustness_changed, ttc_expired) ==
    /\ diags # <<>>
    /\ (symptoms_changed \/ robustness_changed \/ ttc_expired)

----------------------------------------------------------------------------
(* The online loop of main.                                                *)

\* No calculateTTC call is being looked at.
PrognosisIdle ==
    /\ nodeStates = <<>>
    /\ criticalityThreshold = 0
    /\ current_time = 0
    /\ prognosis = <<>>
    /\ hypothesisId = ""
    /\ hypothesis_plausibility = <<>>

\* No refine call is being looked at.
RefinementIdle ==
    /\ p_id = ""
    /\ candidateSetH = <<>>
    /\ dataset = <<>>
    /\ diagnosisError = <<>>
    /\ refine_log = <<>>

\* main.cpp lines 31 and 99-101: the PrognosisManager is constructed,
\* calculateTTC was not called, and the threshold is the default.
PrognosisConstructed ==
    /\ nodeStates = <<>>
    /\ criticalityThreshold = DefaultCriticalityThreshold
    /\ current_time = 0
    /\ prognosis = <<>>
    /\ hypothesisId = ""
    /\ hypothesis_plausibility = <<>>

\* No ingestor's registry is being looked at.
IngestorIdle ==
    /\ m_parameter_to_internal_id = <<>>
    /\ m_internal_id_to_parameter = <<>>
    /\ m_next_internal_id = 0

\* main.cpp lines 146-148: nothing was reported yet.
DriverIdle ==
    /\ last_active_symptoms = {}
    /\ last_robustness_scores = <<>>
    /\ last_ttc = <<>>
    /\ report = FALSE

\* main.cpp lines 92-98: the model, the empty ingestor and the one engine.
Init ==
    /\ m_model \in Graphs
    /\ m_samples = <<>>
    /\ m_node_states = InitNodeStates(m_model)
    /\ diagnoses = <<>>
    /\ outcome = "ok"
    /\ ranked_diagnoses = <<>>
    /\ PrognosisConstructed
    /\ RefinementIdle
    /\ SignalIngestorConstructed(m_model.signals)
    /\ DriverIdle

\* main.cpp lines 152-226: one tick: ingest the sample, findActiveHypotheses
\* on the engine that main reuses, the comparison with the last tick,
\* calculateTTC and the decision to print a report block.  An exception or a
\* stack overflow in findActiveHypotheses ends the program.
Tick(sample) ==
    /\ outcome = "ok"
    /\ Len(m_samples) < MaxSamples
    /\ m_samples' = ingest(m_samples, sample)
    /\ m_node_states' = evaluateSignalTrace(m_model, m_samples', m_node_states)
    /\ \E r \in HypothesisTracking(m_model, m_node_states') :
          /\ outcome' = r.ev
          /\ diagnoses' = r.diags
          /\ IF r.ev = "ok"
             THEN LET prognosis_result ==
                          calculateTTC(m_model, m_node_states',
                                       criticalityThreshold, sample.timestamp_ms)
                      ttc == prognosis_result.ttc
                  IN  /\ last_active_symptoms' = ActiveSymptoms(m_model, m_node_states')
                      /\ last_robustness_scores' = RobustnessScores(r.diags)
                      /\ nodeStates' = m_node_states'
                      /\ current_time' = sample.timestamp_ms
                      /\ prognosis' = <<prognosis_result>>
                      /\ last_ttc' = ttc
                      /\ report' = ReportPrinted(
                             r.diags,
                             last_active_symptoms' # last_active_symptoms,
                             RobustnessChanged(last_robustness_scores, r.diags),
                             TtcExpired(ttc, last_ttc))
             ELSE UNCHANGED <<nodeStates, current_time, prognosis, driver_vars>>
    /\ UNCHANGED <<m_model, ranked_diagnoses, criticalityThreshold,
                   hypothesisId, hypothesis_plausibility, refinement_vars, ingestor_vars>>

Next == \E sample \in Samples(m_model) : Tick(sample)

Spec == Init /\ [][Next]_vars

\* The online loop on the graph with the degenerate signal range.
InitRobust ==
    /\ m_model = GRobust
    /\ m_samples = <<>>
    /\ m_node_states = InitNodeStates(m_model)
    /\ diagnoses = <<>>
    /\ outcome = "ok"
    /\ ranked_diagnoses = <<>>
    /\ PrognosisConstructed
    /\ RefinementIdle
    /\ SignalIngestorConstructed(m_model.signals)
    /\ DriverIdle

SpecRobust == InitRobust /\ [][Next]_vars

----------------------------------------------------------------------------
(* The online loop on a model whose predicates use every operator.         *)

\* Five discrepancies on the one signal, with the operators >=, ==, <=, >
\* and <, each with the threshold 1.
GOperators ==
    [signals |-> <<Signal("s1", "temp", 0, 2)>>,
     nodes   |-> <<FailureMode("F1", "F1", 0),
                   Discrepancy("D01", "D01", <<"OR">>, <<Predicate("s1", ">=", 1)>>, 1),
                   Discrepancy("D02", "D02", <<"OR">>, <<Predicate("s1", "==", 1)>>, 1),
                   Discrepancy("D", "D", <<"OR">>, <<Predicate("s1", "<=", 1)>>, 1),
                   Discrepancy("D1", "D1", <<"OR">>, <<Predicate("s1", ">", 1)>>, 5),
                   Discrepancy("D2", "D2", <<"OR">>, <<Predicate("s1", "<", 1)>>, 5)>>,
     edges   |-> <<Edge("F1", "D01", 0, 1), Edge("F1", "D1", 0, 1)>>]

InitOperators ==
    /\ m_model = GOperators
    /\ m_samples = <<>>
    /\ m_node_states = InitNodeStates(m_model)
    /\ diagnoses = <<>>
    /\ outcome = "ok"
    /\ ranked_diagnoses = <<>>
    /\ PrognosisConstructed
    /\ RefinementIdle
    /\ SignalIngestorConstructed(m_model.signals)
    /\ DriverIdle

SpecOperators == InitOperators /\ [][Next]_vars

----------------------------------------------------------------------------
(* The online loop on a model with an AND gate under two parents.          *)

\* D01 watches temp and D02 watches pres, both OR-gated below F1; the
\* AND-gated D1 below both watches the signal signal_ref, and stands first or
\* last in the node list, which is the order the sensor branch visits.
GAnd(signal_ref, child_first) ==
    LET child == Discrepancy("D1", "D1", <<"AND">>,
                     <<Predicate(signal_ref, ">", 1)>>, 5)
        parents == <<FailureMode("F1", "F1", 0),
                     Discrepancy("D01", "D01", <<"OR">>, <<Predicate("s1", ">", 1)>>, 1),
                     Discrepancy("D02", "D02", <<"OR">>, <<Predicate("s2", ">", 1)>>, 1)>>
    IN  [signals |-> <<Signal("s1", "temp", 0, 2), Signal("s2", "pres", 0, 2)>>,
         nodes   |-> IF child_first THEN <<child>> \o parents
                     ELSE parents \o <<child>>,
         edges   |-> <<Edge("F1", "D01", 0, 1000), Edge("F1", "D02", 0, 1000),
                       Edge("D01", "D1", 0, 1000), Edge("D02", "D1", 0, 1000)>>]

AndGraphs == {GAnd(signal_ref, child_first) :
                 signal_ref \in {"s1", "s2"}, child_first \in BOOLEAN}

\* The two timestamps of the stream: the rows may come in either order and
\* may repeat a timestamp.
AndTimes == {5, 20}

AndSamples(model) ==
    {DataSample(t, p, v, FALSE) :
        t \in AndTimes, p \in ParameterIds(model), v \in Values}

InitAnd ==
    /\ m_model \in AndGraphs
    /\ m_samples = <<>>
    /\ m_node_states = InitNodeStates(m_model)
    /\ diagnoses = <<>>
    /\ outcome = "ok"
    /\ ranked_diagnoses = <<>>
    /\ PrognosisConstructed
    /\ RefinementIdle
    /\ SignalIngestorConstructed(m_model.signals)
    /\ DriverIdle

NextAnd == \E sample \in AndSamples(m_model) : Tick(sample)

SpecAnd == InitAnd /\ [][NextAnd]_vars

----------------------------------------------------------------------------
(* The online loop on a stream whose rows carry is_failure_mode flags.     *)

\* The source name temp is also the name of the failure mode F1 and the id
\* of the AND-gated discrepancy below it; D1 is OR-gated on the same signal.
GFlag ==
    [signals |-> <<Signal("s1", "temp", 0, 2)>>,
     nodes   |-> <<FailureMode("F1", "temp", 0),
                   Discrepancy("temp", "D2", <<"AND">>, <<Predicate("s1", ">", 1)>>, 5),
                   Discrepancy("D1", "D1", <<"OR">>, <<Predicate("s1", ">", 1)>>, 1)>>,
     edges   |-> <<Edge("F1", "temp", 0, 1), Edge("F1", "D1", 0, 1)>>]

\* main.cpp line 162: a row may carry the flag or not, whatever its
\* parameter_id; values below and above the thresholds, at the first and at
\* the last timestamp.
FlagSamples(model) ==
    {DataSample(t, p, v, flag) :
        t \in {0, MaxTime}, p \in ParameterIds(model), v \in {0, 2},
        flag \in BOOLEAN}

InitFlag ==
    /\ m_model = GFlag
    /\ m_samples = <<>>
    /\ m_node_states = InitNodeStates(m_model)
    /\ diagnoses = <<>>
    /\ outcome = "ok"
    /\ ranked_diagnoses = <<>>
    /\ PrognosisConstructed
    /\ RefinementIdle
    /\ SignalIngestorConstructed(m_model.signals)
    /\ DriverIdle

NextFlag == \E sample \in FlagSamples(m_model) : Tick(sample)

SpecFlag == InitFlag /\ [][NextFlag]_vars

----------------------------------------------------------------------------
(* The ranking step of findActiveHypotheses on its own.                    *)

\* Longest vector of results handed to std::sort.
MaxResults == 3

\* Plausibilities consistent / expected of the results sorted: one consistent
\* symptom out of 1000, 1001, 1002, 2 or 1 expected ones.
RankPlausibilities == {<<1, 1000>>, <<1, 1001>>, <<1, 1002>>, <<1, 2>>, <<1, 1>>}

\* Aggregate robustness values of the results sorted.
RankRobustness == {<<-1, 2>>, Zero, <<1, 2>>}

\* Lines 186-236 push the results in the order of the std::set of candidate
\* ids; the k-th candidate.
CandidateId(k) == <<"F1", "F2", "F3", "F4">>[k]

\* Line 234: a pushed result, reduced to the fields the comparator and the
\* caller's report read.
RankResult(k, plausibility, robustness) ==
    [node |-> CandidateId(k), plausibility |-> plausibility, robustness |-> robustness]

\* The vectors of n results.
RankInputs(n) ==
    {[k \in 1..n |-> RankResult(k, f[k][1], f[k][2])] :
        f \in [1..n -> RankPlausibilities \X RankRobustness]}

\* findActiveHypotheses has reached line 239 with some vector of results.
InitRank ==
    /\ m_model = [signals |-> <<>>, nodes |-> <<>>, edges |-> <<>>]
    /\ m_samples = <<>>
    /\ m_node_states = <<>>
    /\ diagnoses = <<>>
    /\ outcome = "ranking"
    /\ \E n \in 0..MaxResults : ranked_diagnoses \in RankInputs(n)
    /\ PrognosisIdle
    /\ RefinementIdle
    /\ IngestorIdle
    /\ DriverIdle

\* Lines 239-247: sort and return.
Rank ==
    /\ outcome = "ranking"
    /\ diagnoses' = SortRanked(ranked_diagnoses)
    /\ outcome' = "ok"
    /\ UNCHANGED <<m_model, m_samples, m_node_states, ranked_diagnoses,
                   prognosis_vars, refinement_vars, ingestor_vars, driver_vars>>

NextRank == Rank

SpecRank == InitRank /\ [][NextRank]_vars

----------------------------------------------------------------------------
(* Any sequence of mutator calls on a graph.                               *)

\* Longest node list and longest edge list explored.
MaxGraphNodes == 3

MaxGraphEdges == 2

MutationIds == {"F1", "D1", "D2"}

\* The nodes handed to addNode: for each id two nodes that differ in name and
\* criticality_level.
MutationNodes ==
    {FailureMode("F1", "F1", 0), FailureMode("F1", "pump", 3),
     Discrepancy("D1", "D1", <<"AND">>, <<Predicate("s1", ">", 1)>>, 5),
     Discrepancy("D1", "valve", <<"OR">>, <<Predicate("s1", ">", 1)>>, 9),
     Discrepancy("D2", "D2", <<"OR">>, <<Predicate("s1", "<", 1)>>, 5),
     Discrepancy("D2", "tank", <<"OR">>, <<Predicate("s1", "<", 1)>>, 9)}

\* The edges handed to addEdge: any two ids, present in the graph or not.
MutationEdges == {Edge(from, to, 0, 1) : from \in MutationIds, to \in MutationIds}

\* A parsed graph with unique node ids.
InitGraph ==
    /\ m_model = GChain
    /\ m_samples = <<>>
    /\ m_node_states = <<>>
    /\ diagnoses = <<>>
    /\ outcome = "ok"
    /\ ranked_diagnoses = <<>>
    /\ PrognosisIdle
    /\ RefinementIdle
    /\ IngestorIdle
    /\ DriverIdle

\* What a mutator call leaves alone: everything but the graph.
mutation_unchanged ==
    <<m_samples, m_node_states, diagnoses, outcome, ranked_diagnoses,
      prognosis_vars, refinement_vars, ingestor_vars, driver_vars>>

AddNode(node) ==
    /\ Len(m_model.nodes) < MaxGraphNodes \/ node.id \in NodeIds(m_model)
    /\ m_model' = addNode(m_model, node)
    /\ UNCHANGED mutation_unchanged

RemoveNode(id) ==
    /\ m_model' = removeNode(m_model, id)
    /\ UNCHANGED mutation_unchanged

AddEdge(edge) ==
    /\ Len(m_model.edges) < MaxGraphEdges
    /\ m_model' = addEdge(m_model, edge)
    /\ UNCHANGED mutation_unchanged

RemoveEdge(from, to) ==
    /\ m_model' = removeEdge(m_model, from, to)
    /\ UNCHANGED mutation_unchanged

NextGraph ==
    \/ \E node \in MutationNodes : AddNode(node)
    \/ \E id \in MutationIds : RemoveNode(id)
    \/ \E edge \in MutationEdges : AddEdge(edge)
    \/ \E from \in MutationIds, to \in MutationIds : RemoveEdge(from, to)

SpecGraph == InitGraph /\ [][NextGraph]_vars

----------------------------------------------------------------------------
(* calculateTTC on its own: any node-state map, threshold and time.        *)

\* Largest activation_time_ms of an active node; times are 0..MaxActivation.
MaxActivation == 2

\* Largest current_time; times are 0..MaxNow.
MaxNow == 3

\* Two paths of different length from A to C, and D behind C.
GTtcDiamond ==
    [signals |-> <<>>,
     nodes   |-> <<FailureMode("A", "A", 0),
                   Discrepancy("B", "B", <<"OR">>, <<>>, 1),
                   Discrepancy("C", "C", <<"OR">>, <<>>, 5),
                   Discrepancy("D", "D", <<"OR">>, <<>>, 9)>>,
     edges   |-> <<Edge("A", "C", 3, 3), Edge("A", "B", 1, 2),
                   Edge("B", "C", 1, 1), Edge("C", "D", 1, 2)>>]

\* A cycle B -> C -> B with an edge of weight 0, and two edges into D.
GTtcCycle ==
    [signals |-> <<>>,
     nodes   |-> <<FailureMode("A", "A", 0),
                   Discrepancy("B", "B", <<"OR">>, <<>>, 1),
                   Discrepancy("C", "C", <<"OR">>, <<>>, 5),
                   Discrepancy("D", "D", <<"OR">>, <<>>, 9)>>,
     edges   |-> <<Edge("A", "B", 0, 1), Edge("B", "C", 2, 2),
                   Edge("C", "B", 0, 0), Edge("C", "D", 1, 1),
                   Edge("B", "D", 3, 3)>>]

\* Edges with a negative time_min_ms (rTFPGModel::addEdge takes any window),
\* two of them on a cycle.
GTtcNegative ==
    [signals |-> <<>>,
     nodes   |-> <<FailureMode("A", "A", 0),
                   Discrepancy("B", "B", <<"OR">>, <<>>, 1),
                   Discrepancy("C", "C", <<"OR">>, <<>>, 5),
                   Discrepancy("D", "D", <<"OR">>, <<>>, 9)>>,
     edges   |-> <<Edge("A", "B", 2, 2), Edge("B", "C", -1, 0),
                   Edge("C", "B", -1, 0), Edge("C", "D", 2, 2)>>]

\* Spec scenario 4: one edge A -> C with time_min 50, C of criticality 9.
GScenario4 ==
    [signals |-> <<>>,
     nodes   |-> <<FailureMode("A", "A", 0),
                   Discrepancy("C", "C", <<"OR">>, <<>>, 9)>>,
     edges   |-> <<Edge("A", "C", 50, 100)>>]

TtcGraphs == {GTtcDiamond, GTtcCycle, GTtcNegative}

\* Thresholds between the criticality levels 0, 1, 5, 9 of the nodes.
Thresholds == {1, 5, 9}

\* A node state that is active since t.
ActiveSince(t) ==
    [DefaultNodeState EXCEPT !.is_active = TRUE, !.activation_time_ms = t]

\* The node-state maps handed to calculateTTC: one entry per node, inactive
\* or active since some time.
TtcNodeStates(model) ==
    [NodeIds(model) -> {DefaultNodeState} \cup {ActiveSince(t) : t \in 0..MaxActivation}]

\* main.cpp lines 99-101, 211: a PrognosisManager on some graph, about to be
\* asked for the TTC.
InitTTC ==
    /\ m_model \in TtcGraphs
    /\ m_samples = <<>>
    /\ m_node_states = <<>>
    /\ diagnoses = <<>>
    /\ outcome = "ok"
    /\ ranked_diagnoses = <<>>
    /\ nodeStates \in TtcNodeStates(m_model)
    /\ criticalityThreshold \in Thresholds
    /\ current_time \in 0..MaxNow
    /\ prognosis = <<>>
    /\ hypothesisId = ""
    /\ hypothesis_plausibility = <<>>
    /\ RefinementIdle
    /\ IngestorIdle
    /\ DriverIdle

\* main.cpp line 211: the call; prognosis holds the PrognosisResult.
CalculateTTC ==
    /\ prognosis = <<>>
    /\ prognosis' = <<calculateTTC(m_model, nodeStates, criticalityThreshold,
                                   current_time)>>
    /\ UNCHANGED <<m_model, m_samples, m_node_states, diagnoses, outcome,
                   ranked_diagnoses, nodeStates, criticalityThreshold,
                   current_time, hypothesisId, hypothesis_plausibility, refinement_vars,
                   ingestor_vars, driver_vars>>

NextTTC == CalculateTTC

SpecTTC == InitTTC /\ [][NextTTC]_vars

----------------------------------------------------------------------------
(* calculatePlausibility on its own: any hypothesis and any node-state map *)
(* over the nodes of the graph.                                            *)

\* A PrognosisManager on a graph, about to be asked for the plausibility of
\* one of its nodes under node states that are inactive or active since 0.
InitPlausibility ==
    /\ m_model \in {GOrder} \cup AndGraphs
    /\ m_samples = <<>>
    /\ m_node_states = <<>>
    /\ diagnoses = <<>>
    /\ outcome = "ok"
    /\ ranked_diagnoses = <<>>
    /\ nodeStates \in [NodeIds(m_model) -> {DefaultNodeState, ActiveSince(0)}]
    /\ criticalityThreshold = 0
    /\ current_time = 0
    /\ prognosis = <<>>
    /\ hypothesisId \in NodeIds(m_model)
    /\ hypothesis_plausibility = <<>>
    /\ RefinementIdle
    /\ IngestorIdle
    /\ DriverIdle

\* The call; hypothesis_plausibility holds the double returned.
CalculatePlausibility ==
    /\ hypothesis_plausibility = <<>>
    /\ hypothesis_plausibility' =
           <<calculatePlausibility(m_model, hypothesisId, nodeStates)>>
    /\ UNCHANGED <<m_model, m_samples, m_node_states, diagnoses, outcome,
                   ranked_diagnoses, nodeStates, criticalityThreshold,
                   current_time, prognosis, hypothesisId, refinement_vars,
                   ingestor_vars, driver_vars>>

SpecPlausibility == InitPlausibility /\ [][CalculatePlausibility]_vars

----------------------------------------------------------------------------
(* RefinementOptimizer.                                                    *)

\* struct LabeledTrace: the samples of the trace's ingestor and the label.
LabeledTrace(ingestor, expected_activation) ==
    [ingestor |-> ingestor, expected_activation |-> expected_activation]

\* RefinementOptimizer.cpp lines 18-38: the loop over the traces from index k
\* with the misclassifications counted so far: a fresh LogicEngine on the
\* trace's buffer, findActiveHypotheses, and the comparison of the target's
\* is_active with the label.  evs is {"ok"} when every findActiveHypotheses
\* returned, else the ways the first one that did not return can end.  Here
\* and below, a local the code computes once is bound once, as the one
\* element of a set.
RECURSIVE CountMisclassifications(_, _, _, _, _)
CountMisclassifications(model, targetNodeId, traces, k, misclassifications) ==
    IF k > Len(traces)
    THEN [evs |-> {"ok"}, de |-> Rat(misclassifications, Len(traces))]
    ELSE CHOOSE counted \in
             {CHOOSE tracked \in
                  {LET is_active == IF targetNodeId \in DOMAIN node_states
                                    THEN node_states[targetNodeId].is_active
                                    ELSE FALSE
                   IN  IF evs # {"ok"} THEN [evs |-> evs, de |-> Zero]
                       ELSE CountMisclassifications(model, targetNodeId, traces, k + 1,
                                IF is_active # traces[k].expected_activation
                                THEN misclassifications + 1 ELSE misclassifications) :
                      evs \in {{r.ev : r \in HypothesisTracking(model, node_states)}}} :
                  TRUE :
                 node_states \in {evaluateSignalTrace(model, traces[k].ingestor,
                                                      InitNodeStates(model))}} : TRUE

\* RefinementOptimizer.cpp lines 12-39.
calculateDiagnosisError(model, targetNodeId, traces) ==
    IF traces = <<>> THEN [evs |-> {"ok"}, de |-> Zero]
    ELSE CountMisclassifications(model, targetNodeId, traces, 1, 0)

\* The nodes from which a node of visited is reached backwards, visited
\* included.
RECURSIVE BackwardClosure(_, _)
BackwardClosure(model, visited) ==
    LET next == visited \cup {e.from : e \in {x \in SeqRange(model.edges) :
                                                 x.to \in visited}}
    IN  IF next = visited THEN visited ELSE BackwardClosure(model, next)

\* RefinementOptimizer.cpp lines 43-66: the from-node of every edge into a
\* node the backward search visits, that is, every ancestor of nodeId.
getMinimalCutSet(model, nodeId) ==
    {e.from : e \in {x \in SeqRange(model.edges) :
                        x.to \in BackwardClosure(model, {nodeId})}}

\* An added edge whose interval is empty, time_min_ms above time_max_ms.
DefaultEdgeInverted(from, to) == Edge(from, to, 1000, 0)

\* Lines 104, 131, 156: an added edge carries the default interval.
DefaultEdge(from, to) == Edge(from, to, 0, 1000)

\* Lines 150-153: the from-nodes of the edges into p_id, in edge order.
RECURSIVE Predecessors(_, _, _)
Predecessors(model, id, i) ==
    IF i > Len(model.edges) THEN <<>>
    ELSE IF model.edges[i].to = id
    THEN <<model.edges[i].from>> \o Predecessors(model, id, i + 1)
    ELSE Predecessors(model, id, i + 1)

\* Line 89: successorDE <= currentDE.
Descends(successorDE, currentDE) == ~RatLess(currentDE, successorDE)

\* Lines 109, 137, 166: newDE < currentDE.
Improves(newDE, currentDE) == RatLess(newDE, currentDE)

\* Every recursive call of refine is followed by return, so a call is at one
\* place of one activation at a time: in the loop of step 1 ("successor"),
\* of step 2 ("edge"), of step 3 ("node") or of its case B ("caseB"), at the
\* entry of the next activation ("refine"), or ended ("done").  The frame
\* holds the graph as the mutations left it, the target, the locals of the
\* activation and evs, {"ok"} unless the call cannot return.  log holds what
\* the call did to the graph so far, in order: <<step, "keep", from, to>> for
\* a mutation kept (lines 110, 138 and 167 print it), <<step, "revert", from,
\* to>> for an edge removed again (lines 116, 144, 171) and <<"node",
\* "remove", id, id>> for a candidate removed (line 182).  calls holds the
\* <<graph, target>> of the activations that have not returned: one that
\* meets its own graph and target again recurses without end.
RefineFrame(phase, model, id, calls) ==
    [phase |-> phase, model |-> model, id |-> id, calls |-> calls,
     currentDE |-> Zero, mcs |-> {}, predecessors |-> <<>>, i |-> 1, j |-> 1,
     evs |-> {"ok"}, log |-> <<>>]

\* The call has ended on the graph model in one of the ways evs.
RefineEnded(f, model, evs) ==
    [f EXCEPT !.phase = "done", !.model = model, !.evs = evs]

\* The recursive call refine(id, ...) on the graph model.
RefineCall(f, model, id) ==
    [f EXCEPT !.phase = "refine", !.model = model, !.id = id]

\* The frame f with the event <<step, what, from, to>> at the end of its log.
Logged(f, step, what, from, to) ==
    [f EXCEPT !.log = Append(@, <<step, what, from, to>>)]

\* Lines 71-80: the entry of an activation.
RefineEntry(f, traces) ==
    IF <<f.model, f.id>> \in f.calls
    THEN RefineEnded(f, f.model, {"stack_overflow"})
    ELSE CHOOSE entered \in
             {IF currentDE.evs # {"ok"} THEN RefineEnded(f, f.model, currentDE.evs)
              ELSE IF currentDE.de = Zero THEN RefineEnded(f, f.model, {"ok"})
              ELSE [f EXCEPT !.phase = "successor",
                             !.calls = f.calls \cup {<<f.model, f.id>>},
                             !.currentDE = currentDE.de, !.i = 1] :
                 currentDE \in {calculateDiagnosisError(f.model, f.id, traces)}} : TRUE

\* Lines 84-95: one pass of the loop of successor selection, at edge f.i; at
\* its end line 98 computes mcs once for the loop of step 2.
SuccessorSelection(f, traces) ==
    IF f.i > Len(f.model.edges)
    THEN [f EXCEPT !.phase = "edge", !.mcs = getMinimalCutSet(f.model, f.id),
                   !.i = 1]
    ELSE IF f.model.edges[f.i].from # f.id THEN [f EXCEPT !.i = f.i + 1]
    ELSE LET d_prime_id == f.model.edges[f.i].to
         IN  CHOOSE selected \in
                 {IF successorDE.evs # {"ok"}
                  THEN RefineEnded(f, f.model, successorDE.evs)
                  ELSE IF Descends(successorDE.de, f.currentDE)
                  THEN RefineCall(f, f.model, d_prime_id)
                  ELSE [f EXCEPT !.i = f.i + 1] :
                     successorDE \in {calculateDiagnosisError(f.model, d_prime_id,
                                                              traces)}} : TRUE

\* Lines 99-119: one pass of the loop of internal edge addition, at node f.i.
EdgeAddition(f, traces) ==
    IF f.i > Len(f.model.nodes) THEN [f EXCEPT !.phase = "node", !.i = 1]
    ELSE LET node == f.model.nodes[f.i]
             added == addEdge(f.model, DefaultEdge(node.id, f.id))
         IN  IF ~(node.type = "Discrepancy" /\ node.id # f.id /\ node.id \notin f.mcs)
             THEN [f EXCEPT !.i = f.i + 1]
             ELSE CHOOSE tried \in
                      {IF newDE.evs # {"ok"} THEN RefineEnded(f, added, newDE.evs)
                       ELSE IF Improves(newDE.de, f.currentDE)
                       THEN RefineCall(Logged(f, "edge", "keep", node.id, f.id),
                                       added, f.id)
                       ELSE [Logged(f, "edge", "revert", node.id, f.id)
                                EXCEPT !.model = removeEdge(added, node.id, f.id),
                                       !.i = f.i + 1] :
                          newDE \in {calculateDiagnosisError(added, f.id, traces)}} :
                      TRUE

\* Lines 122-153: one pass of the loop of node expansion, at candidate H[f.i]:
\* case A, and the predecessors case B will try.
NodeExpansion(f, H, traces) ==
    IF f.i > Len(H) THEN RefineEnded(f, f.model, {"ok"})
    ELSE IF H[f.i].id \in NodeIds(f.model) THEN [f EXCEPT !.i = f.i + 1]
    ELSE LET d_prime == H[f.i]
             caseA == addEdge(addNode(f.model, d_prime), DefaultEdge(f.id, d_prime.id))
             reverted == removeEdge(caseA, f.id, d_prime.id)
         IN  CHOOSE tried \in
                 {IF de_d_prime.evs # {"ok"} THEN RefineEnded(f, caseA, de_d_prime.evs)
                  ELSE IF Improves(de_d_prime.de, f.currentDE)
                  THEN RefineCall(Logged(f, "caseA", "keep", f.id, d_prime.id),
                                  caseA, d_prime.id)
                  ELSE [Logged(f, "caseA", "revert", f.id, d_prime.id)
                           EXCEPT !.phase = "caseB", !.model = reverted,
                                  !.predecessors = Predecessors(reverted, f.id, 1),
                                  !.j = 1] :
                     de_d_prime \in {calculateDiagnosisError(caseA, d_prime.id,
                                                             traces)}} : TRUE

\* Case B with the test of line 166 as newDE <= currentDE.
CaseBKeepsOnEqual(f, H, traces) ==
    IF f.j > Len(f.predecessors)
    THEN [Logged(f, "node", "remove", H[f.i].id, H[f.i].id)
             EXCEPT !.phase = "node", !.model = removeNode(f.model, H[f.i].id),
                    !.i = f.i + 1]
    ELSE LET v_id == f.predecessors[f.j]
             added == addEdge(f.model, DefaultEdge(v_id, H[f.i].id))
         IN  CHOOSE tried \in
                 {IF newDE.evs # {"ok"} THEN RefineEnded(f, added, newDE.evs)
                  ELSE IF Descends(newDE.de, f.currentDE)
                  THEN RefineCall(Logged(f, "caseB", "keep", v_id, H[f.i].id),
                                  added, f.id)
                  ELSE [Logged(f, "caseB", "revert", v_id, H[f.i].id)
                           EXCEPT !.model = removeEdge(added, v_id, H[f.i].id),
                                  !.j = f.j + 1] :
                     newDE \in {calculateDiagnosisError(added, f.id, traces)}} : TRUE

\* Lines 155-182: one pass of the loop of case B for the candidate H[f.i], at
\* predecessor f.j; at its end the candidate is removed and the loop of node
\* expansion goes on.
CaseB(f, H, traces) ==
    IF f.j > Len(f.predecessors)
    THEN [Logged(f, "node", "remove", H[f.i].id, H[f.i].id)
             EXCEPT !.phase = "node", !.model = removeNode(f.model, H[f.i].id),
                    !.i = f.i + 1]
    ELSE LET v_id == f.predecessors[f.j]
             added == addEdge(f.model, DefaultEdge(v_id, H[f.i].id))
         IN  CHOOSE tried \in
                 {IF newDE.evs # {"ok"} THEN RefineEnded(f, added, newDE.evs)
                  ELSE IF Improves(newDE.de, f.currentDE)
                  THEN RefineCall(Logged(f, "caseB", "keep", v_id, H[f.i].id),
                                  added, f.id)
                  ELSE [Logged(f, "caseB", "revert", v_id, H[f.i].id)
                           EXCEPT !.model = removeEdge(added, v_id, H[f.i].id),
                                  !.j = f.j + 1] :
                     newDE \in {calculateDiagnosisError(added, f.id, traces)}} : TRUE

\* The frame after the next pass.
RefineStep(f, H, traces) ==
    CASE f.phase = "refine" -> RefineEntry(f, traces)
      [] f.phase = "successor" -> SuccessorSelection(f, traces)
      [] f.phase = "edge" -> EdgeAddition(f, traces)
      [] f.phase = "node" -> NodeExpansion(f, H, traces)
      [] f.phase = "caseB" -> CaseB(f, H, traces)

\* The passes from frame f to the end of the call; each frame is computed
\* once, as the one element of a set.
RECURSIVE RefineFrom(_, _, _)
RefineFrom(f, H, traces) ==
    IF f.phase = "done" THEN [model |-> f.model, evs |-> f.evs, log |-> f.log]
    ELSE CHOOSE r \in {RefineFrom(next, H, traces) :
                          next \in {RefineStep(f, H, traces)}} : TRUE

\* Lines 71-184: the graph refine leaves, evs, {"ok"} when it returns, else
\* the ways it can end, and the log of what it did to the graph.
refine(model, id, H, traces, calls) ==
    RefineFrom(RefineFrame("refine", model, id, calls), H, traces)

----------------------------------------------------------------------------
(* calculateDiagnosisError and refine on their own: any target, candidate  *)
(* list and labeled dataset.                                               *)

MaxCopies == 3

RefineSignals == <<Signal("s1", "temp", 0, 2), Signal("s2", "pres", 0, 2)>>

\* The cycle A -> B -> C -> A of an AND-gated A, an OR-gated B and an
\* AND-gated C, beside an unconnected D that only an injection activates.
GRefineCycle ==
    [signals |-> RefineSignals,
     nodes   |-> <<Discrepancy("A", "A", <<"AND">>, <<Predicate("s1", ">", 1)>>, 5),
                   Discrepancy("B", "B", <<"OR">>, <<Predicate("s2", ">", 1)>>, 1),
                   Discrepancy("C", "C", <<"AND">>, <<Predicate("s2", ">", 1)>>, 1),
                   Discrepancy("D", "D", <<"OR">>, <<>>, 1)>>,
     edges   |-> <<Edge("A", "B", 0, 1000), Edge("B", "C", 0, 1000),
                   Edge("C", "A", 0, 1000)>>]

\* F1 -> A with an edge from A to itself.
GRefineLoop ==
    [signals |-> RefineSignals,
     nodes   |-> <<FailureMode("F1", "F1", 0),
                   Discrepancy("A", "A", <<"OR">>, <<Predicate("s1", ">", 1)>>, 5)>>,
     edges   |-> <<Edge("F1", "A", 0, 1), Edge("A", "A", 0, 1)>>]

\* An edge from the id D, which is no node, into the AND-gated C, whose
\* other parent F1 holds it inactive.
GRefineDangling ==
    [signals |-> RefineSignals,
     nodes   |-> <<FailureMode("F1", "F1", 0),
                   Discrepancy("C", "C", <<"AND">>, <<Predicate("s2", ">", 1)>>, 5)>>,
     edges   |-> <<Edge("D", "C", 0, 1), Edge("F1", "C", 0, 1)>>]

RefineGraphs == {GRefineCycle, GRefineLoop, GRefineDangling}

\* The labeled traces a dataset is made of: a high pressure reading alone,
\* followed by a high temperature, and around an injection at D.
LabeledTraceList ==
    LET pres == DataSample(0, "pres", 2, FALSE)
        temp == DataSample(1, "temp", 2, FALSE)
        inject == DataSample(1, "D", 1, TRUE)
        again == DataSample(2, "pres", 2, FALSE)
    IN  <<LabeledTrace(<<pres>>, FALSE),
          LabeledTrace(<<pres, temp>>, TRUE),
          LabeledTrace(<<pres, inject, again>>, TRUE)>>

\* copies[k] copies of the k-th labeled trace, for k, k + 1, ...
RECURSIVE DatasetOf(_, _)
DatasetOf(copies, k) ==
    IF k > Len(LabeledTraceList) THEN <<>>
    ELSE [i \in 1..copies[k] |-> LabeledTraceList[k]] \o DatasetOf(copies, k + 1)

\* The candidate lists: none, a new discrepancy, and a node whose id the
\* graph may hold followed by the new discrepancy twice.
CandidateSets ==
    LET H1 == Discrepancy("H1", "H1", <<"OR">>, <<Predicate("s1", ">", 1)>>, 1)
        B  == Discrepancy("B", "other", <<"OR">>, <<Predicate("s1", ">", 1)>>, 9)
    IN  {<<>>, <<H1>>, <<B, H1, H1>>}

\* The optimizer over a parsed graph, and the arguments of the calls.
InitRefine ==
    /\ m_model \in RefineGraphs
    /\ m_samples = <<>>
    /\ m_node_states = <<>>
    /\ diagnoses = <<>>
    /\ outcome = "ok"
    /\ ranked_diagnoses = <<>>
    /\ PrognosisIdle
    /\ p_id \in NodeIds(m_model) \cup {"D"}
    /\ candidateSetH \in CandidateSets
    /\ \E copies \in [1..Len(LabeledTraceList) -> 0..MaxCopies] :
          dataset = DatasetOf(copies, 1)
    /\ diagnosisError = <<>>
    /\ refine_log = <<>>
    /\ IngestorIdle
    /\ DriverIdle

\* calculateDiagnosisError(p_id, dataset); an exception or a stack overflow in
\* it ends the program.
CalculateDiagnosisError ==
    /\ outcome = "ok"
    /\ diagnosisError = <<>>
    /\ \E r \in {calculateDiagnosisError(m_model, p_id, dataset)} :
          /\ outcome' \in r.evs
          /\ diagnosisError' = IF r.evs = {"ok"} THEN <<r.de>> ELSE <<>>
    /\ UNCHANGED <<m_model, m_samples, m_node_states, diagnoses, ranked_diagnoses,
                   prognosis_vars, p_id, candidateSetH, dataset, refine_log,
                   ingestor_vars, driver_vars>>

\* refine(p_id, candidateSetH, dataset); an exception or a stack overflow in
\* it ends the program with the graph as the call left it.
Refine ==
    /\ outcome = "ok"
    /\ \E r \in {refine(m_model, p_id, candidateSetH, dataset, {})} :
          /\ outcome' \in r.evs
          /\ m_model' = r.model
          /\ refine_log' = r.log
    /\ diagnosisError' = <<>>
    /\ UNCHANGED <<m_samples, m_node_states, diagnoses, ranked_diagnoses,
                   prognosis_vars, p_id, candidateSetH, dataset,
                   ingestor_vars, driver_vars>>

NextRefine == CalculateDiagnosisError \/ Refine

SpecRefine == InitRefine /\ [][NextRefine]_vars

----------------------------------------------------------------------------
(* refine on graphs that the steps of edge addition and node expansion can *)
(* change: a node named as the candidate's id, an edge to the candidate's  *)
(* id, and a target above its only other discrepancy.                      *)

\* A is named H1, the id of the candidate: an injection at H1 reaches A by
\* name until the candidate is in the graph, and the candidate from then on.
GExpandAlias ==
    [signals |-> RefineSignals,
     nodes   |-> <<FailureMode("F1", "F1", 0),
                   Discrepancy("A", "H1", <<"OR">>, <<Predicate("s2", ">", 1)>>, 5)>>,
     edges   |-> <<Edge("F1", "A", 0, 1)>>]

\* An edge from B, which no sample activates, to the id H1, which is no node
\* until the candidate is added.
GExpandDangling ==
    [signals |-> RefineSignals,
     nodes   |-> <<Discrepancy("C", "C", <<"OR">>, <<Predicate("s2", ">", 1)>>, 5),
                   Discrepancy("B", "B", <<"OR">>, <<>>, 5)>>,
     edges   |-> <<Edge("B", "H1", 0, 1)>>]

\* The AND-gated A without a parent, above the OR-gated B.
GExpandDescendant ==
    [signals |-> RefineSignals,
     nodes   |-> <<Discrepancy("A", "A", <<"AND">>, <<Predicate("s1", ">", 1)>>, 5),
                   Discrepancy("B", "B", <<"OR">>, <<Predicate("s2", ">", 1)>>, 5)>>,
     edges   |-> <<Edge("A", "B", 0, 1)>>]

\* The labeled traces: a high temperature, a high pressure, an injection at
\* H1, each expected to leave the target inactive.
ExpandTraceList ==
    <<LabeledTrace(<<DataSample(0, "temp", 2, FALSE)>>, FALSE),
      LabeledTrace(<<DataSample(0, "pres", 2, FALSE)>>, FALSE),
      LabeledTrace(<<DataSample(0, "H1", 1, TRUE)>>, FALSE)>>

\* copies[k] copies of the k-th labeled trace, for k, k + 1, ...
RECURSIVE ExpandDatasetOf(_, _)
ExpandDatasetOf(copies, k) ==
    IF k > Len(ExpandTraceList) THEN <<>>
    ELSE [i \in 1..copies[k] |-> ExpandTraceList[k]] \o ExpandDatasetOf(copies, k + 1)

\* The optimizer over one of the three graphs; the candidate list is empty
\* or holds one new discrepancy.
InitExpand ==
    /\ m_model \in {GExpandAlias, GExpandDangling, GExpandDescendant}
    /\ m_samples = <<>>
    /\ m_node_states = <<>>
    /\ diagnoses = <<>>
    /\ outcome = "ok"
    /\ ranked_diagnoses = <<>>
    /\ PrognosisIdle
    /\ p_id \in NodeIds(m_model)
    /\ candidateSetH \in
           {<<>>,
            <<Discrepancy("H1", "H1", <<"OR">>, <<Predicate("s1", ">", 1)>>, 1)>>}
    /\ \E copies \in [1..Len(ExpandTraceList) -> 0..MaxCopies] :
          dataset = ExpandDatasetOf(copies, 1)
    /\ diagnosisError = <<>>
    /\ refine_log = <<>>
    /\ IngestorIdle
    /\ DriverIdle

SpecExpand == InitExpand /\ [][NextRefine]_vars

----------------------------------------------------------------------------
(* Properties of the online loop and of the Logic Engine.                  *)

Discrepancies(model) == {n \in SeqRange(model.nodes) : n.type = "Discrepancy"}

FailureModes(model) == {n \in SeqRange(model.nodes) : n.type = "FailureMode"}

\* The node-state map of a freshly constructed LogicEngine after one
\* findActiveHypotheses over the given buffer.
FreshStates(model, samples) ==
    evaluateSignalTrace(model, samples, InitNodeStates(model))

\* C1: once a node is active after a tick it is active after every later tick:
\* no step of the online loop takes is_active from true to false (nor drops
\* the entry).
IsActiveMonotone ==
    [][\A id \in DOMAIN m_node_states :
          m_node_states[id].is_active =>
              (id \in DOMAIN m_node_states' /\ m_node_states'[id].is_active)]_vars

\* A node that was active after the first tick, seen after the second tick.
IsActiveMonotoneWitness ==
    /\ Len(m_samples) >= 2
    /\ \E id \in NodeIds(m_model) :
          /\ FreshStates(m_model, SubSeq(m_samples, 1, 1))[id].is_active
          /\ m_node_states[id].is_active

\* C2: a second findActiveHypotheses with no ingest in between leaves every
\* node state as the first call left it and returns the same diagnosis list.
SecondCallIdempotent ==
    outcome = "ok" =>
        LET again == evaluateSignalTrace(m_model, m_samples, m_node_states)
        IN  /\ again = m_node_states
            /\ HypothesisTracking(m_model, again) =
                   {[ev |-> "ok", diags |-> diagnoses]}

\* C3: after every tick the reused engine's node-state map equals the map of
\* a fresh engine run once over the samples ingested so far.
ReusedEqualsFresh ==
    m_node_states = FreshStates(m_model, m_samples)

\* C4: every parent of an active AND-gated discrepancy is active with an
\* activation time <= the child's.
AndParentsActiveEarlier ==
    \A n \in Discrepancies(m_model) :
        (n.gate_type = <<"AND">> /\ m_node_states[n.id].is_active) =>
            \A e \in SeqRange(m_model.edges) :
                e.to = n.id =>
                    /\ e.from \in DOMAIN m_node_states
                    /\ m_node_states[e.from].is_active
                    /\ m_node_states[e.from].activation_time_ms
                           <= m_node_states[n.id].activation_time_ms

\* The activation rule on one sample: the sample is a reading of the node's
\* signal with robustness > 0 and, for an AND gate, every parent is active
\* with activation time <= the sample's timestamp.
ActivationRule(model, node_states, n, sample) ==
    /\ n.predicate # <<>>
    /\ IsSensorReading(model, sample)
    /\ LET sig == ResolveSignal(model, n.predicate[1].signal_ref)
       IN  /\ sig.source_name = sample.parameterID
           /\ RatLess(Zero, calculateRobustness(n.predicate[1], sample.value,
                                                sig.range_min, sig.range_max))
    /\ n.gate_type = <<"AND">> =>
          \A e \in SeqRange(model.edges) :
              e.to = n.id =>
                  /\ e.from \in DOMAIN node_states
                  /\ node_states[e.from].is_active
                  /\ node_states[e.from].activation_time_ms <= sample.timestamp_ms

\* C5: the activation time of an active discrepancy is the timestamp of a
\* buffered sample whose evaluation satisfied the activation rule.
ActivationBySatisfyingSample ==
    \A n \in Discrepancies(m_model) :
        m_node_states[n.id].is_active =>
            \E i \in 1..Len(m_samples) :
                /\ m_samples[i].timestamp_ms = m_node_states[n.id].activation_time_ms
                /\ ActivationRule(m_model, m_node_states, n, m_samples[i])

Ordered(samples) ==
    \A i, j \in 1..Len(samples) :
        i <= j => samples[i].timestamp_ms <= samples[j].timestamp_ms

\* C6: with samples ingested in non-decreasing timestamp order, a discrepancy
\* first reported active at a tick carries the timestamp of that tick's sample:
\* every earlier sample was evaluated at the previous tick and rejected, so
\* the first sample at which its activation conditions hold is the new one.
ActivationTimeIsFirstHolding ==
    [][Ordered(m_samples') =>
          \A n \in Discrepancies(m_model) :
              (~m_node_states[n.id].is_active /\ m_node_states'[n.id].is_active) =>
                  m_node_states'[n.id].activation_time_ms
                      = m_samples'[Len(m_samples')].timestamp_ms]_vars

\* C7: a failure-mode node is active only if the buffer holds a fault
\* injection (no signal has the sample's parameterID) with value > 0 whose
\* parameterID is the node's id or name.
FailureModeOnlyByInjection ==
    \A n \in FailureModes(m_model) :
        m_node_states[n.id].is_active =>
            \E i \in 1..Len(m_samples) :
                /\ m_samples[i].value > 0
                /\ ~IsSensorReading(m_model, m_samples[i])
                /\ m_samples[i].parameterID \in {n.id, n.name}

\* A failure mode is active while the buffer also holds a sensor reading that
\* satisfied some discrepancy's predicate.
FailureModeOnlyByInjectionWitness ==
    /\ \E n \in FailureModes(m_model) : m_node_states[n.id].is_active
    /\ \E i \in 1..Len(m_samples) :
          /\ IsSensorReading(m_model, m_samples[i])
          /\ m_samples[i].value > 1

\* C8: a discrepancy whose predicate's signal_ref is the id of no signal is
\* never active.
UnresolvedRefNeverActive ==
    \A n \in Discrepancies(m_model) :
        (/\ n.predicate # <<>>
         /\ \A sig \in SeqRange(m_model.signals) : sig.id # n.predicate[1].signal_ref)
        => ~m_node_states[n.id].is_active

\* The sample's parameterID is no signal source_name, no node id and no node
\* name.
UnknownTarget(model, sample) ==
    /\ ~IsSensorReading(model, sample)
    /\ sample.parameterID \notin NodeIds(model)
    /\ sample.parameterID \notin {n.name : n \in SeqRange(model.nodes)}

\* C9: in every findActiveHypotheses call, the evaluation of a buffered sample
\* with an unknown target leaves the state of every node of the model as it
\* was before that sample; the whole state map is left as it was unless the
\* parameterID is the from of an edge (an id that operator[] may have inserted
\* into the map).
UnknownTargetNoOp ==
    [][\A k \in 1..Len(m_samples') :
          UnknownTarget(m_model, m_samples'[k]) =>
              LET before == EvalPrefix(m_model, m_samples', m_node_states, k - 1)
                  after == EvalPrefix(m_model, m_samples', m_node_states, k)
              IN  /\ \A id \in NodeIds(m_model) : after[id] = before[id]
                  /\ m_samples'[k].parameterID
                         \notin {e.from : e \in SeqRange(m_model.edges)}
                     => after = before]_vars

\* The buffer holds an unknown-target sample with value > 0 while some node is
\* active.
UnknownTargetNoOpWitness ==
    /\ \E k \in 1..Len(m_samples) :
          UnknownTarget(m_model, m_samples[k]) /\ m_samples[k].value > 0
    /\ \E id \in NodeIds(m_model) : m_node_states[id].is_active

\* C10: findActiveHypotheses never ends in an error on an inconsistent model.
NeverRaises == outcome # "out_of_range"

\* C11: a diagnosis run always completes: findActiveHypotheses returns for
\* every finite graph with sound signal ranges, edge windows and edge
\* endpoints, cycles among active discrepancies included; the backward
\* propagation never recurses without end.
AlwaysTerminates == outcome # "stack_overflow"

\* C12: every recursive call of the backward propagation from a discrepancy
\* child to a discrepancy parent follows an edge parent -> child whose parent
\* is active and whose time delta activation_time(child) -
\* activation_time(parent) lies in [time_min_ms, time_max_ms]; a hop with a
\* delta outside the window, a negative one included, is never made.
HopsWithinWindow ==
    \A s \in ActiveSymptoms(m_model, m_node_states) :
        \A h \in backwardPropagate(m_model, m_node_states, s).hops :
            LET edge == m_model.edges[h.edge]
                delta == m_node_states[h.child].activation_time_ms
                         - m_node_states[h.parent].activation_time_ms
            IN  /\ edge.from = h.parent /\ edge.to = h.child
                /\ NodeMapAt(m_model, h.parent).type = "Discrepancy"
                /\ m_node_states[h.parent].is_active
                /\ edge.time_min_ms <= delta /\ delta <= edge.time_max_ms

\* A backward propagation that made a hop and, from the parent reached, met an
\* edge from an active discrepancy with a negative time delta and did not
\* follow it.
HopsWithinWindowWitness ==
    /\ outcome = "ok"
    /\ \E s \in ActiveSymptoms(m_model, m_node_states) :
          LET hops == backwardPropagate(m_model, m_node_states, s).hops
          IN  \E h \in hops :
                  \E i \in 1..Len(m_model.edges) :
                      LET edge == m_model.edges[i]
                      IN  /\ edge.to = h.parent
                          /\ edge.from \in ActiveSymptoms(m_model, m_node_states)
                          /\ m_node_states[edge.to].activation_time_ms
                                 < m_node_states[edge.from].activation_time_ms
                          /\ \A g \in hops : g.edge # i

\* There is a path of one or more edges of the model from node a to node b.
PathExists(model, a, b) ==
    \E n \in 1..Len(model.edges) :
        \E p \in [1..n -> 1..Len(model.edges)] :
            /\ model.edges[p[1]].from = a
            /\ model.edges[p[n]].to = b
            /\ \A i \in 1..(n - 1) : model.edges[p[i]].to = model.edges[p[i + 1]].from

\* C13: for every returned DiagnosisResult, expected_symptoms is exactly the
\* set of discrepancies reachable from its node over one or more forward
\* edges, consistent_symptoms lists exactly the active ones among them (each
\* once), plausibility = |consistent_symptoms| / |expected_symptoms|, and
\* 0 < plausibility <= 1.
DiagnosisSymptomSets ==
    \A k \in 1..Len(diagnoses) :
        LET d == diagnoses[k]
            reach == {n.id : n \in {x \in Discrepancies(m_model) :
                                        PathExists(m_model, d.node, x.id)}}
            active == {id \in reach : m_node_states[id].is_active}
        IN  /\ d.expected_symptoms = reach
            /\ SeqRange(d.consistent_symptoms) = active
            /\ Len(d.consistent_symptoms) = Cardinality(active)
            /\ d.plausibility[1] * Cardinality(reach)
                   = Cardinality(active) * d.plausibility[2]
            /\ d.plausibility[1] > 0
            /\ d.plausibility[1] <= d.plausibility[2]

\* A result whose expected symptoms include a discrepancy that is no child of
\* the failure mode, with one of two expected symptoms active.
DiagnosisSymptomSetsWitness ==
    \E k \in 1..Len(diagnoses) :
        /\ Cardinality(diagnoses[k].expected_symptoms) = 2
        /\ Len(diagnoses[k].consistent_symptoms) = 1
        /\ \E id \in diagnoses[k].expected_symptoms :
              \A e \in SeqRange(m_model.edges) :
                  e.to = id => e.from # diagnoses[k].node

\* The mean of state.robustness over the expected symptoms of a result.
MeanRobustness(node_states, d) ==
    RatDivInt(SumRobustness(node_states, d.expected_symptoms),
              Cardinality(d.expected_symptoms))

\* The robustness of the last buffered reading of the signal of discrepancy n
\* (0 when the buffer holds none).
LatestObserved(model, samples, n) ==
    LET sig == ResolveSignal(model, n.predicate[1].signal_ref)
        readings == {i \in 1..Len(samples) :
                        /\ IsSensorReading(model, samples[i])
                        /\ samples[i].parameterID = sig.source_name}
    IN  IF readings = {} THEN Zero
        ELSE calculateRobustness(n.predicate[1],
                 samples[CHOOSE i \in readings : \A j \in readings : j <= i].value,
                 sig.range_min, sig.range_max)

\* C14: the robustness of every returned DiagnosisResult is the mean of
\* state.robustness over all its expected symptoms, active or not, clamped to
\* [-1, +1]; an inactive expected symptom contributes the robustness of the
\* latest reading of its signal; the result lies in [-1, +1] also when the
\* signal range is degenerate and node robustness is a raw margin.
RobustnessIsClampedMean ==
    \A k \in 1..Len(diagnoses) :
        LET d == diagnoses[k]
            mean == MeanRobustness(m_node_states, d)
        IN  /\ \A s \in d.expected_symptoms : s \in DOMAIN m_node_states
            /\ d.robustness = IF RatLess(<<1, 1>>, mean) THEN <<1, 1>>
                              ELSE IF RatLess(mean, <<-1, 1>>) THEN <<-1, 1>>
                              ELSE mean
            /\ ~RatLess(d.robustness, <<-1, 1>>)
            /\ ~RatLess(<<1, 1>>, d.robustness)
            /\ \A s \in d.expected_symptoms :
                  ~m_node_states[s].is_active =>
                      m_node_states[s].robustness
                          = LatestObserved(m_model, m_samples, NodeMapAt(m_model, s))

\* A result whose mean exceeds 1 although one of its expected symptoms is
\* inactive with a negative raw margin.
RobustnessIsClampedMeanWitness ==
    \E k \in 1..Len(diagnoses) :
        /\ RatLess(<<1, 1>>, MeanRobustness(m_node_states, diagnoses[k]))
        /\ \E s \in diagnoses[k].expected_symptoms :
              /\ ~m_node_states[s].is_active
              /\ RatLess(m_node_states[s].robustness, Zero)

\* C15: in a returned list, for every result a placed before a result b:
\* a.plausibility >= b.plausibility up to the 1e-6 tie threshold, and when the
\* two plausibilities are within 1e-6 of each other, a.robustness >=
\* b.robustness.
RankedByPlausibilityThenRobustness ==
    outcome = "ok" =>
        \A i, j \in 1..Len(diagnoses) :
            i < j =>
                LET a == diagnoses[i]
                    b == diagnoses[j]
                    tie == <<1, TieDenominator>>
                IN  /\ ~RatLess(RatAdd(a.plausibility, tie), b.plausibility)
                    /\ (/\ ~RatLess(RatAdd(a.plausibility, tie), b.plausibility)
                        /\ ~RatLess(RatAdd(b.plausibility, tie), a.plausibility))
                       => ~RatLess(a.robustness, b.robustness)

\* The node of the model with criticality_level >= the threshold.
IsCritical(model, threshold, id) ==
    \E n \in SeqRange(model.nodes) : n.id = id /\ n.criticality_level >= threshold

\* C16: whenever calculateTTC returns a finite ttc, critical_node_id is a node
\* of the model with criticality_level >= the threshold that is not active in
\* the given node states; an active critical node is never returned, and the
\* search goes on through it: an inactive critical child whose predicted
\* arrival from it is not before current_time makes the ttc finite.
FiniteTtcNamesInactiveCritical ==
    \A k \in 1..Len(prognosis) :
        LET r == prognosis[k]
        IN  /\ r.ttc # <<>> =>
                  /\ r.critical_node_id \in NodeIds(m_model)
                  /\ IsCritical(m_model, criticalityThreshold, r.critical_node_id)
                  /\ ~nodeStates[r.critical_node_id].is_active
            /\ \A e \in SeqRange(m_model.edges) :
                  (/\ nodeStates[e.from].is_active
                   /\ IsCritical(m_model, criticalityThreshold, e.from)
                   /\ ~nodeStates[e.to].is_active
                   /\ IsCritical(m_model, criticalityThreshold, e.to)
                   /\ nodeStates[e.from].activation_time_ms + e.time_min_ms
                          >= current_time)
                  => r.ttc # <<>>

\* A finite ttc for D, reached from the active critical node C.
FiniteTtcNamesInactiveCriticalWitness ==
    /\ prognosis # <<>>
    /\ prognosis[1].ttc # <<>>
    /\ prognosis[1].critical_node_id = "D"
    /\ nodeStates["C"].is_active
    /\ IsCritical(m_model, criticalityThreshold, "C")
    /\ ~nodeStates["A"].is_active /\ ~nodeStates["B"].is_active

\* C17: no prognosis path yields an arrival time before current_time: a
\* finite ttc returned by calculateTTC is >= 0 and every predicted (non-seed)
\* entry pushed on the priority queue has an arrival time >= current_time.
NoArrivalBeforeNow ==
    \A k \in 1..Len(prognosis) :
        /\ prognosis[k].ttc # <<>> => prognosis[k].ttc[1] >= 0
        /\ \A entry \in prognosis[k].pushed : entry[1] >= current_time

\* A call that returned a finite ttc although some edge from an active node
\* to an inactive one predicted an arrival before current_time.
NoArrivalBeforeNowWitness ==
    /\ prognosis # <<>>
    /\ prognosis[1].ttc # <<>>
    /\ prognosis[1].pushed # {}
    /\ \E e \in SeqRange(m_model.edges) :
          /\ nodeStates[e.from].is_active
          /\ ~nodeStates[e.to].is_active
          /\ nodeStates[e.from].activation_time_ms + e.time_min_ms < current_time

\* The sequences of one or more edge indices of the model, up to the length of
\* the longest path that visits no node twice (with weights >= 0 a path that
\* comes back to a node arrives no earlier than the path without the detour).
EdgePaths(model) ==
    UNION {[1..n -> 1..Len(model.edges)] : n \in 1..(Len(model.nodes) - 1)}

\* The predicted arrival at the end of the i-th edge of path p, started at the
\* activation time of the path's first node.
RECURSIVE Arrival(_, _, _, _)
Arrival(model, node_states, p, i) ==
    IF i = 0 THEN node_states[model.edges[p[1]].from].activation_time_ms
    ELSE Arrival(model, node_states, p, i - 1) + model.edges[p[i]].time_min_ms

\* p is a timed path to a node of the criticality front: it starts at an
\* active node, its edges are chained, every arrival is >= now, the nodes it
\* passes are inactive and not critical, and its end is inactive and critical.
TimedPath(model, node_states, threshold, now, p) ==
    LET n == Len(p)
    IN  /\ node_states[model.edges[p[1]].from].is_active
        /\ \A i \in 1..(n - 1) : model.edges[p[i]].to = model.edges[p[i + 1]].from
        /\ \A i \in 1..n : Arrival(model, node_states, p, i) >= now
        /\ \A i \in 1..n : ~node_states[model.edges[p[i]].to].is_active
        /\ \A i \in 1..(n - 1) : ~IsCritical(model, threshold, model.edges[p[i]].to)
        /\ IsCritical(model, threshold, model.edges[p[n]].to)

\* The arrival times of the timed paths to the criticality front.
FrontArrivals(model, node_states, threshold, now) ==
    {Arrival(model, node_states, p, Len(p)) :
        p \in {q \in EdgePaths(model) : TimedPath(model, node_states, threshold, now, q)}}

InfiniteTtcMeansUnreachable ==
    \A k \in 1..Len(prognosis) :
        prognosis[k].ttc = <<>> =>
            ~\E a, c \in NodeIds(m_model) :
                /\ nodeStates[a].is_active
                /\ ~nodeStates[c].is_active
                /\ IsCritical(m_model, criticalityThreshold, c)
                /\ PathExists(m_model, a, c)

\* C20: addNode is idempotent on id: adding a node whose id is already
\* present, whatever its other fields, leaves the node list (and the rest of
\* the graph) unchanged, and a second addNode of the same node changes nothing
\* either; after any sequence of addNode, removeNode, addEdge and removeEdge
\* calls on a graph with unique node ids the node ids are unique.
AddNodeIdempotentIdsUnique ==
    /\ \A i, j \in 1..Len(m_model.nodes) :
          m_model.nodes[i].id = m_model.nodes[j].id => i = j
    /\ \A node \in MutationNodes :
          /\ node.id \in NodeIds(m_model) => addNode(m_model, node) = m_model
          /\ addNode(addNode(m_model, node), node) = addNode(m_model, node)

\* A graph that addNode has extended to three nodes, one of them (D2, added
\* as "tank") with an id under which addNode is offered a different node.
AddNodeIdempotentIdsUniqueWitness ==
    /\ Len(m_model.nodes) = 3
    /\ \E i \in 1..3 : m_model.nodes[i].id = "D2" /\ m_model.nodes[i].name = "tank"
    /\ \E node \in MutationNodes : node.id = "D2" /\ node.name = "D2"
    /\ m_model.edges # <<>>

\* The k-th smallest member of a set of indices.
KthIndex(indices, k) ==
    CHOOSE i \in indices : Cardinality({j \in indices : j < i}) = k - 1

\* after holds exactly the elements of before at the indices in kept, in
\* their order in before.
RetainedInOrder(before, after, kept) ==
    /\ Len(after) = Cardinality(kept)
    /\ \A k \in 1..Len(after) : after[k] = before[KthIndex(kept, k)]

\* C21: removeNode cascades: after removeNode(id) the graph holds no node of
\* that id and no edge whose from or to is id, and every other node and every
\* other edge is retained in its original relative order.
RemoveNodeCascades ==
    [][\A id \in MutationIds :
          RemoveNode(id) =>
              /\ \A i \in 1..Len(m_model'.nodes) : m_model'.nodes[i].id # id
              /\ \A i \in 1..Len(m_model'.edges) :
                    m_model'.edges[i].from # id /\ m_model'.edges[i].to # id
              /\ RetainedInOrder(m_model.nodes, m_model'.nodes,
                     {i \in 1..Len(m_model.nodes) : m_model.nodes[i].id # id})
              /\ RetainedInOrder(m_model.edges, m_model'.edges,
                     {i \in 1..Len(m_model.edges) :
                         m_model.edges[i].from # id /\ m_model.edges[i].to # id})
              /\ m_model'.signals = m_model.signals]_vars

\* A graph left with the nodes F1 and D2 and the one edge F1 -> D2, as
\* removeNode("D1") leaves it.
RemoveNodeCascadesWitness ==
    /\ NodeIds(m_model) = {"F1", "D2"}
    /\ Len(m_model.edges) = 1
    /\ m_model.edges[1].from = "F1" /\ m_model.edges[1].to = "D2"

----------------------------------------------------------------------------
(* Properties of the Refinement Optimizer.                                 *)

\* Node ids are unique, every edge endpoint is a node id, and no edge has
\* time_min_ms above time_max_ms.
GraphInvariants(model) ==
    /\ \A i, j \in 1..Len(model.nodes) :
          model.nodes[i].id = model.nodes[j].id => i = j
    /\ \A e \in SeqRange(model.edges) :
          /\ e.from \in NodeIds(model)
          /\ e.to \in NodeIds(model)
          /\ e.time_min_ms <= e.time_max_ms

\* A step of a refine call that returned and changed the graph: refine is the
\* only operation of the optimizer that writes the graph.
RefineReturned == m_model' # m_model /\ outcome' = "ok"

\* C22: a refine call that starts on a graph with unique node ids, existing
\* edge endpoints and time_min_ms <= time_max_ms on every edge and returns
\* leaves a graph with the same three invariants, whatever the candidate list
\* and the dataset.
RefinePreservesInvariants ==
    [][(RefineReturned /\ GraphInvariants(m_model)) => GraphInvariants(m_model')]_vars

\* A graph that refine left after it was offered a node of an id the graph
\* holds and the same new candidate twice: the candidate H1 is in it once,
\* below an edge of the default interval.
RefinePreservesInvariantsWitness ==
    /\ outcome = "ok"
    /\ Len(candidateSetH) = 3
    /\ Cardinality({i \in 1..Len(m_model.nodes) : m_model.nodes[i].id = "H1"}) = 1
    /\ \E e \in SeqRange(m_model.edges) : e.to = "H1" /\ e.time_max_ms = 1000

\* C23: refine terminates: on a graph with unique node ids, existing edge
\* endpoints and time_min_ms <= time_max_ms, no refine call recurses without
\* end, whatever the candidate list and the dataset.
RefineTerminates ==
    [][(Refine /\ GraphInvariants(m_model)) => outcome' # "stack_overflow"]_vars

\* The diagnosis error of the target on a graph, when every run returns.
TargetDE(model) == calculateDiagnosisError(model, p_id, dataset).de

\* C24: refinement never makes the target worse: the diagnosis error of p on
\* the graph a returned refine(p, H, dataset) leaves is at most the one on the
\* graph it started from.
RefineNeverWorse ==
    [][(RefineReturned /\ GraphInvariants(m_model))
          => ~RatLess(TargetDE(m_model), TargetDE(m_model'))]_vars

\* The target is a node of the graph that a fresh replay of the trace's
\* buffer leaves active.
TraceActive(model, target, trace) ==
    /\ target \in NodeIds(model)
    /\ evaluateSignalTrace(model, trace.ingestor,
                           InitNodeStates(model))[target].is_active

\* C25: what calculateDiagnosisError(p, dataset) returns is the share of the
\* traces on which a fresh engine's is_active of p differs from the label, a p
\* that is no node of the graph counting as inactive; it is 0 for the empty
\* dataset and lies in [0, 1].
DiagnosisErrorIsMisclassificationRate ==
    diagnosisError # <<>> =>
        LET differ == {k \in 1..Len(dataset) :
                          TraceActive(m_model, p_id, dataset[k])
                              # dataset[k].expected_activation}
        IN  /\ diagnosisError[1] = IF dataset = <<>> THEN Zero
                                   ELSE Rat(Cardinality(differ), Len(dataset))
            /\ ~RatLess(diagnosisError[1], Zero)
            /\ ~RatLess(<<1, 1>>, diagnosisError[1])

----------------------------------------------------------------------------
(* Properties of the SignalIngestor and of the report decision of main.    *)

\* C26: the registry covers observed parameters: every parameterID that was
\* ingested has a non-negative internal id, and getParameterId of that id is
\* the parameterID.
IngestedParametersRegistered ==
    \A k \in 1..Len(m_samples) :
        LET id == getInternalId(m_parameter_to_internal_id, m_samples[k].parameterID)
        IN  /\ id >= 0
            /\ id < m_next_internal_id
            /\ getParameterId(m_internal_id_to_parameter, id)
                   = <<m_samples[k].parameterID>>

\* C27: the buffer is append-only and in arrival order: a tick, with its
\* findActiveHypotheses and calculateTTC calls, leaves the graph as it was and
\* the buffer as it was with the ingested sample as its new last element.
BufferAppendOnly ==
    [][/\ m_model' = m_model
       /\ \/ m_samples' = m_samples
          \/ /\ Len(m_samples') = Len(m_samples) + 1
             /\ \A i \in 1..Len(m_samples) : m_samples'[i] = m_samples[i]
             /\ m_samples'[Len(m_samples')] \in Samples(m_model)]_vars

\* Two different samples were ingested, in that order, and both ticks ran
\* findActiveHypotheses and calculateTTC.
BufferAppendOnlyWitness ==
    /\ Len(m_samples) = 2
    /\ m_samples[1].parameterID = "temp" /\ m_samples[1].value = 2
    /\ m_samples[2].parameterID = "F1"
    /\ outcome = "ok"
    /\ prognosis # <<>>
    /\ current_time = m_samples[2].timestamp_ms

\* The ttc of a PrognosisResult holder is at most 0; an empty holder and an
\* empty ttc stand for +infinity.
TtcAtMostZero(holder) ==
    /\ holder # <<>>
    /\ holder[1].ttc # <<>>
    /\ holder[1].ttc[1] <= 0

\* C28: a report block is printed after every sample that changes the set of
\* active symptoms, moves the robustness of a diagnosis by more than 1e-6, or
\* takes the TTC from above 0 to at most 0, also when the tick's diagnosis
\* list is empty.
ReportOnEveryChange ==
    [][(/\ m_samples' # m_samples
        /\ outcome' = "ok"
        /\ \/ ActiveSymptoms(m_model, m_node_states')
                  # ActiveSymptoms(m_model, m_node_states)
           \/ \E i \in 1..Len(diagnoses), j \in 1..Len(diagnoses') :
                 /\ diagnoses[i].node = diagnoses'[j].node
                 /\ RatLess(<<1, 1000000>>,
                            RatDistance(diagnoses[i].robustness,
                                        diagnoses'[j].robustness))
           \/ (TtcAtMostZero(prognosis') /\ ~TtcAtMostZero(prognosis)))
          => report']_vars

----------------------------------------------------------------------------
(* Properties of the robustness bookkeeping and of the AND gate.           *)

\* The signals a predicate's signal_ref names, first match first: the index
\* set is empty when the reference does not resolve.
SignalIndex(model, signal_ref) ==
    {i \in 1..Len(model.signals) :
        /\ model.signals[i].id = signal_ref
        /\ \A j \in 1..(i - 1) : model.signals[j].id # signal_ref}

\* The sample is a sensor reading of the signal the node's predicate watches.
ReadingOfNode(model, n, sample) ==
    /\ n.predicate # <<>>
    /\ \E i \in SignalIndex(model, n.predicate[1].signal_ref) :
          model.signals[i].source_name = sample.parameterID

\* The robustness line 72 computes for the node from the sample.
ReadingRobustness(model, n, sample) ==
    LET i == CHOOSE k \in SignalIndex(model, n.predicate[1].signal_ref) : TRUE
    IN  calculateRobustness(n.predicate[1], sample.value,
            model.signals[i].range_min, model.signals[i].range_max)

\* C29: after a tick that ingested a sensor sample of the signal of a
\* discrepancy that is still inactive, the node's robustness is the value
\* computed from that sample, negative or zero values included; and a node
\* that is active keeps its robustness, activation_time_ms and trigger_value
\* through every later tick, that is through every later sample and every
\* later findActiveHypotheses call.
RobustnessTracksThenLatches ==
    [][/\ \A id \in DOMAIN m_node_states :
             m_node_states[id].is_active =>
                 /\ id \in DOMAIN m_node_states'
                 /\ m_node_states'[id].robustness = m_node_states[id].robustness
                 /\ m_node_states'[id].activation_time_ms
                        = m_node_states[id].activation_time_ms
                 /\ m_node_states'[id].trigger_value = m_node_states[id].trigger_value
       /\ m_samples' # m_samples =>
             \A n \in Discrepancies(m_model) :
                 (/\ ReadingOfNode(m_model, n, m_samples'[Len(m_samples')])
                  /\ ~m_node_states'[n.id].is_active) =>
                     m_node_states'[n.id].robustness
                         = ReadingRobustness(m_model, n, m_samples'[Len(m_samples')])]_vars

\* Both halves at once: a first reading above the threshold activated one
\* discrepancy, which kept its fields through a second, different reading of
\* the same signal, and a discrepancy that is still inactive dropped what it
\* had recorded from the first reading for the value of the second.
RobustnessTracksThenLatchesWitness ==
    /\ Len(m_samples) = 2
    /\ m_samples[1].value = 2 /\ m_samples[2].value # 2
    /\ m_samples[1].timestamp_ms = 0 /\ m_samples[2].timestamp_ms = 1
    /\ \E n \in Discrepancies(m_model) :
          /\ ReadingOfNode(m_model, n, m_samples[1])
          /\ ReadingOfNode(m_model, n, m_samples[2])
          /\ m_node_states[n.id].is_active
          /\ m_node_states[n.id].trigger_value = 2
          /\ m_node_states[n.id].activation_time_ms = 0
          /\ m_node_states[n.id].robustness
                 = ReadingRobustness(m_model, n, m_samples[1])
          /\ m_node_states[n.id].robustness
                 # ReadingRobustness(m_model, n, m_samples[2])
    /\ \E n \in Discrepancies(m_model) :
          /\ ~m_node_states[n.id].is_active
          /\ ReadingOfNode(m_model, n, m_samples[1])
          /\ ReadingOfNode(m_model, n, m_samples[2])
          /\ RatLess(ReadingRobustness(m_model, n, m_samples[1]), Zero)
          /\ m_node_states[n.id].robustness
                 = ReadingRobustness(m_model, n, m_samples[2])
          /\ m_node_states[n.id].robustness
                 # ReadingRobustness(m_model, n, m_samples[1])

\* The node enters the active state in this step.
BecomesActive(id) ==
    /\ ~m_node_states[id].is_active
    /\ m_node_states'[id].is_active

\* C30: when a tick that ingested a sensor sample activates an AND-gated
\* discrepancy, the activating sample is a buffered reading of the node's
\* signal, and the from-node of every incoming edge is active with an
\* activation time at or before that sample's timestamp; with D01 active at
\* 5 and D02 active at 20 the activation time of D1 is 20.
AndGateBlocksUntilParents ==
    [][(/\ m_samples' # m_samples
        /\ IsSensorReading(m_model, m_samples'[Len(m_samples')])) =>
           \A n \in Discrepancies(m_model) :
               (n.gate_type = <<"AND">> /\ BecomesActive(n.id)) =>
                   LET t == m_node_states'[n.id].activation_time_ms
                   IN  /\ \E i \in 1..Len(m_samples') :
                              /\ ReadingOfNode(m_model, n, m_samples'[i])
                              /\ m_samples'[i].timestamp_ms = t
                              /\ m_samples'[i].value = m_node_states'[n.id].trigger_value
                       /\ \A i \in 1..Len(m_model.edges) :
                              m_model.edges[i].to = n.id =>
                                  LET from == m_model.edges[i].from
                                  IN  /\ from \in DOMAIN m_node_states'
                                      /\ m_node_states'[from].is_active
                                      /\ m_node_states'[from].activation_time_ms <= t
                       /\ (/\ m_node_states'["D01"].activation_time_ms = 5
                           /\ m_node_states'["D02"].activation_time_ms = 20) =>
                              t = 20]_vars

\* The stream of the scenario: the reading at 5 activated D01, the reading at
\* 20 activated D02, and D1 stands active since 20.
AndGateBlocksUntilParentsWitness ==
    /\ Len(m_samples) = 2
    /\ m_samples[1] = DataSample(5, "temp", 2, FALSE)
    /\ m_samples[2] = DataSample(20, "pres", 2, FALSE)
    /\ m_node_states["D01"].is_active /\ m_node_states["D01"].activation_time_ms = 5
    /\ m_node_states["D02"].is_active /\ m_node_states["D02"].activation_time_ms = 20
    /\ m_node_states["D1"].is_active /\ m_node_states["D1"].activation_time_ms = 20

----------------------------------------------------------------------------
(* Properties of the fault-injection branch.                               *)

\* The node states the replay of this tick holds when it reaches the sample
\* the tick ingested.
BeforeNewSample == EvalPrefix(m_model, m_samples', m_node_states, Len(m_samples))

\* The ids a fault injection with this parameterID may act on: the
\* parameterID when a node state has that key, else the ids of the nodes
\* with that name.
InjectionTargets(model, node_states, parameterID) ==
    IF parameterID \in DOMAIN node_states THEN {parameterID}
    ELSE {n.id : n \in {x \in SeqRange(model.nodes) : x.name = parameterID}}

\* C31: a tick whose sample matches no signal source_name changes, beyond the
\* replay of the older samples, at most the state of the target, found by id
\* among the node states and by name only when no state has that id; an
\* inactive target of a value > 0 becomes active at the sample's timestamp
\* with the sample's value as trigger_value and its robustness as it was; a
\* value <= 0, an active target or no target leaves every node state alone.
FaultInjectionRule ==
    [][(/\ m_samples' # m_samples
        /\ ~IsSensorReading(m_model, m_samples'[Len(m_samples')])) =>
           LET sample == m_samples'[Len(m_samples')]
               before == BeforeNewSample
               targets == InjectionTargets(m_model, before, sample.parameterID)
           IN  IF \E id \in targets : ~before[id].is_active /\ sample.value > 0
               THEN \E id \in targets :
                       /\ ~before[id].is_active
                       /\ m_node_states' =
                              [before EXCEPT ![id] =
                                  [is_active |-> TRUE,
                                   robustness |-> before[id].robustness,
                                   activation_time_ms |-> sample.timestamp_ms,
                                   trigger_value |-> sample.value]]
               ELSE m_node_states' = before]_vars

\* The pump model names its discrepancy D1 "F1": after a reading that left D1
\* inactive with a negative robustness, the injection of "F1" at 1 with value
\* 2 went to the failure mode of that id and not to the node of that name.
FaultInjectionRuleWitness ==
    /\ m_model = GName
    /\ Len(m_samples) = 2
    /\ m_samples[1].parameterID = "temp" /\ m_samples[1].value = 2
    /\ m_samples[2] = DataSample(1, "F1", 2, FALSE)
    /\ m_node_states["F1"].is_active
    /\ m_node_states["F1"].activation_time_ms = 1
    /\ m_node_states["F1"].trigger_value = 2
    /\ m_node_states["F1"].robustness = Zero
    /\ ~m_node_states["D1"].is_active
    /\ RatLess(m_node_states["D1"].robustness, Zero)

\* The buffer with the is_failure_mode flag of every sample given by flags.
Reflagged(samples, flags) ==
    [i \in 1..Len(samples) |-> [samples[i] EXCEPT !.is_failure_mode = flags[i]]]

----------------------------------------------------------------------------
(* Properties of the candidate set and of the returned list.               *)

\* candidate_failures when every backwardPropagate has returned.
CandidateFailures(model, node_states) ==
    UNION {backwardPropagate(model, node_states, s).cands :
              s \in ActiveSymptoms(model, node_states)}

\* Every backwardPropagate returns.
BackwardReturns(model, node_states) ==
    \A s \in ActiveSymptoms(model, node_states) :
        backwardPropagate(model, node_states, s).ev = "ok"

\* The failure modes with an edge to an active discrepancy.
DirectCauses(model, node_states) ==
    {n.id : n \in {x \in FailureModes(model) :
                      \E e \in SeqRange(model.edges) :
                          /\ e.from = x.id
                          /\ e.to \in DOMAIN node_states
                          /\ node_states[e.to].is_active
                          /\ \E d \in Discrepancies(model) : d.id = e.to}}

\* The windows an edge is given instead of its own.
OtherWindows == {<<0, 0>>, <<1, 1>>, <<0, 1000>>}

\* The graph with the window of its i-th edge replaced.
Rewindowed(model, i, window) ==
    [model EXCEPT !.edges[i].time_min_ms = window[1],
                  !.edges[i].time_max_ms = window[2]]

\* The node states with is_active of the node id negated.
Toggled(node_states, id) ==
    [node_states EXCEPT ![id].is_active = ~@]

\* The candidates and the diagnoses are those of the call on model and
\* node_states, whenever that call returns.
SameHypotheses(model, node_states) ==
    \A r \in HypothesisTracking(model, node_states) :
        r.ev = "ok" =>
            /\ CandidateFailures(model, node_states)
                   = CandidateFailures(m_model, m_node_states)
            /\ r.diags = diagnoses

\* C33: when findActiveHypotheses has returned, candidate_failures is the set
\* of the failure modes with an edge to an active discrepancy, and the call
\* on the same node states with any one edge's window replaced, or with
\* is_active of any one failure mode negated, returns (when it returns) the
\* same candidates and the same diagnoses.
CandidatesAreDirectCauses ==
    (outcome = "ok" /\ m_samples # <<>>) =>
        /\ BackwardReturns(m_model, m_node_states)
        /\ CandidateFailures(m_model, m_node_states)
               = DirectCauses(m_model, m_node_states)
        /\ \A i \in 1..Len(m_model.edges) : \A window \in OtherWindows :
               SameHypotheses(Rewindowed(m_model, i, window), m_node_states)
        /\ \A fm \in FailureModes(m_model) :
               SameHypotheses(m_model, Toggled(m_node_states, fm.id))

\* D1 and D2 are both active at 0, which the window [1, 1] of D1 -> D2 does
\* not allow, and F1 is inactive: F1 is a candidate by its edge to D1 and is
\* diagnosed.
CandidatesAreDirectCausesWitness ==
    /\ m_model = GOrder
    /\ outcome = "ok"
    /\ m_node_states["D1"].is_active /\ m_node_states["D2"].is_active
    /\ ~HopConsistent(m_node_states, m_model.edges[2], "D2", "D1")
    /\ ~m_node_states["F1"].is_active
    /\ CandidateFailures(m_model, m_node_states) = {"F1"}
    /\ Len(diagnoses) = 1 /\ diagnoses[1].node = "F1"

\* C34: when findActiveHypotheses has returned, the failure modes of the
\* returned diagnoses are exactly the candidates of backward propagation:
\* every candidate has an active discrepancy among its expected symptoms and
\* a plausibility > 0, so the filter drops none.
EveryCandidateIsDiagnosed ==
    (outcome = "ok" /\ m_samples # <<>>) =>
        /\ {diagnoses[i].node : i \in 1..Len(diagnoses)}
               = CandidateFailures(m_model, m_node_states)
        /\ \A fm \in CandidateFailures(m_model, m_node_states) :
               /\ \E s \in ExpectedSymptoms(m_model, fm) :
                      s \in DOMAIN m_node_states /\ m_node_states[s].is_active
               /\ RatLess(Zero, Diagnose(m_model, m_node_states, fm).plausibility)

\* F1 is a candidate with one of its two expected symptoms active, and is
\* returned with plausibility 1/2.
EveryCandidateIsDiagnosedWitness ==
    /\ outcome = "ok"
    /\ CandidateFailures(m_model, m_node_states) = {"F1"}
    /\ Cardinality(ExpectedSymptoms(m_model, "F1")) = 2
    /\ Len(diagnoses) = 1
    /\ diagnoses[1].node = "F1"
    /\ diagnoses[1].plausibility = <<1, 2>>

----------------------------------------------------------------------------
(* Properties of the steps of refine, read off the log of the call.        *)

\* A step of the specification in which a call of refine returned.
RefineCallReturned ==
    outcome = "ok" /\ outcome' = "ok" /\ diagnosisError' = <<>>

\* The positions of the log at which the step kept a mutation.
KeptAt(log, step) ==
    {k \in 1..Len(log) : log[k][1] = step /\ log[k][2] = "keep"}

\* Case B kept nothing, and every candidate whose case A was reverted was
\* removed after nothing but reverted edges of case B.
CaseBFails(log) ==
    /\ KeptAt(log, "caseB") = {}
    /\ \A k \in 1..Len(log) :
          log[k][1] = "caseA" /\ log[k][2] = "revert" =>
              \E m \in (k + 1)..Len(log) :
                  /\ log[m] = <<"node", "remove", log[k][4], log[k][4]>>
                  /\ \A j \in (k + 1)..(m - 1) :
                        log[j][1] = "caseB" /\ log[j][2] = "revert"
                            /\ log[j][4] = log[k][4]

\* DE(p_id) is the same on the graph that holds the candidate and on that
\* graph with an edge from a predecessor of p_id to the candidate, for every
\* candidate of H the graph does not hold.
EdgeToCandidateLeavesDE(model) ==
    \A k \in 1..Len(candidateSetH) :
        candidateSetH[k].id \notin NodeIds(model) =>
            \A v \in SeqRange(Predecessors(model, p_id, 1)) :
                \E with \in {addNode(model, candidateSetH[k])} :
                    calculateDiagnosisError(
                        addEdge(with, DefaultEdge(v, candidateSetH[k].id)),
                        p_id, dataset)
                    = calculateDiagnosisError(with, p_id, dataset)

\* C35 as stated: in the node expansion of refine, case B never succeeds.
\* In every call of refine that returns, DE(p) with the edge v -> d' is
\* DE(p) without it on the graph of the call, no edge of case B is kept and
\* every candidate whose case A failed is removed.
CaseBNeverSucceeds ==
    [][RefineCallReturned
       => EdgeToCandidateLeavesDE(m_model) /\ CaseBFails(refine_log')]_vars

\* No id of a candidate is the name of a node of another id, in the graph
\* or among the candidates: an injection at a candidate's id reaches no
\* other node by name.
NoCandidateIdIsAName(model, H) ==
    \A d \in SeqRange(H) : \A n \in SeqRange(model.nodes) \cup SeqRange(H) :
        n.name = d.id => n.id = d.id

\* C35 as amended: on a graph whose node ids are unique and whose edge
\* endpoints are nodes, with no candidate id the name of another node, in
\* every call of refine that returns DE(p) with the edge v -> d' is DE(p)
\* without it, no edge of case B is kept and every candidate whose case A
\* failed is removed.
CaseBNeverSucceedsOnSoundGraphs ==
    [][RefineCallReturned /\ GraphInvariants(m_model)
           /\ NoCandidateIdIsAName(m_model, candidateSetH)
       => EdgeToCandidateLeavesDE(m_model) /\ CaseBFails(refine_log')]_vars

\* A call on the graph A -> B tried the candidate under B's predecessor A,
\* reverted the edge, removed the candidate and kept nothing.
CaseBNeverSucceedsOnSoundGraphsWitness ==
    /\ m_model = GExpandDescendant
    /\ outcome = "ok"
    /\ <<"caseB", "revert", "A", "H1">> \in SeqRange(refine_log)
    /\ refine_log[Len(refine_log)] = <<"node", "remove", "H1", "H1">>
    /\ \A k \in 1..Len(refine_log) : refine_log[k][2] # "keep"

\* C36: a call of refine that returns without keeping an edge or a node
\* leaves the node list and the edge list as they were before the call.
RejectedMutationsAreReverted ==
    [][RefineCallReturned
           /\ (\A k \in 1..Len(refine_log') : refine_log'[k][2] # "keep")
       => m_model'.nodes = m_model.nodes /\ m_model'.edges = m_model.edges]_vars

\* The ids reached from the ids in reached along the edges of the graph.
RECURSIVE Descendants(_, _)
Descendants(model, reached) ==
    LET next == reached \cup {e.to : e \in {x \in SeqRange(model.edges) :
                                              x.from \in reached}}
    IN  IF next = reached THEN reached ELSE Descendants(model, next)

\* The graph has no directed cycle: no edge leads back to where it starts.
Acyclic(model) ==
    \A e \in SeqRange(model.edges) : e.from \notin Descendants(model, {e.to})

\* C39: refinement keeps the graph acyclic.  A call of refine on a graph
\* without a directed cycle returns with a graph without a directed cycle.
RefineKeepsAcyclic ==
    [][RefineCallReturned /\ Acyclic(m_model) => Acyclic(m_model')]_vars

----------------------------------------------------------------------------
(* Properties of calculatePlausibility.                                    *)

\* The share of the discrepancies reachable from h that are active, 0 when
\* none is reachable.
ActiveShare(model, h, node_states) ==
    LET reachable == ExpectedSymptoms(model, h)
    IN  IF reachable = {} THEN Zero
        ELSE Rat(Cardinality({s \in reachable : IsActiveIn(node_states, s)}),
                 Cardinality(reachable))

\* C37: calculatePlausibility(h, states) is the number of active discrepancies
\* reachable from h over the number of discrepancies reachable from h, the
\* value the Logic Engine's plausibility gives; stated for the hypotheses
\* that are failure modes.
PlausibilityIsActiveShare ==
    hypothesis_plausibility # <<>>
        /\ NodeMapAt(m_model, hypothesisId).type = "FailureMode" =>
            /\ hypothesis_plausibility[1]
                   = ActiveShare(m_model, hypothesisId, nodeStates)
            /\ hypothesis_plausibility[1]
                   = Diagnose(m_model, nodeStates, hypothesisId).plausibility

----------------------------------------------------------------------------
(* Properties of the predicate operators.                                  *)

\* The sample the tick ingests.
NewSample == m_samples'[Len(m_samples')]

\* The sample cannot satisfy the node's predicate: the operator is neither >
\* nor <, or the value is the threshold.
CannotSatisfy(n, sample) ==
    \/ n.predicate[1].op \notin {">", "<"}
    \/ sample.value = n.predicate[1].threshold

====
